---- MODULE Spec2Model ----
(***************************************************************************)
(* ArchiveChain: the hybrid sealing / unsealing protocol ("Whistleblower   *)
(* Mode") of backend/index (sealBuffer) and frontend/utils/crypto          *)
(* (decryptBlob, decryptSealedBlob), and the multi-node Walrus transfer    *)
(* loops (uploadToWalrusDirectly, fetchHtml).                              *)
(*                                                                         *)
(* Cryptographic primitives are modelled symbolically over real byte       *)
(* strings: a toy stream cipher with a 16-byte tag stands for AES-256-GCM, *)
(* a toy keyed encoding of k bytes stands for RSA-OAEP, and the CSPRNG     *)
(* never returns the same value twice.  What is modelled exactly is the    *)
(* framing code around them: offsets, widths, slicing with clamping,       *)
(* endianness, the order of tag and ciphertext, and the error each step    *)
(* raises.                                                                 *)
(***************************************************************************)
EXTENDS Integers, Sequences, FiniteSets, TLC

VARIABLES
    sealLog,     \* sealBuffer calls made so far: arguments, draws, outcome
    rng,         \* number of values the backend CSPRNG has returned
    wire,        \* the blob handed to the unsealer: which seal, how altered
    unsealRes,   \* outcome of the last decryptBlob / decryptSealedBlob call
    up,          \* the backend's uploadToWalrusDirectly call and its history
    rd,          \* the viewer's fetchHtml call and its history
    api,         \* the backend's POST /api/archive handler
    chain,       \* Sui: the URLRegistry and Archive objects created so far
    browser,     \* the journalist's browser: localStorage and the viewer
    popup,       \* the extension popup: its mode, its button, its requests
    tabs         \* two viewer tabs of one origin sharing one localStorage

----------------------------------------------------------------------------
(* Bounds *)

MaxPayloadLen == 2     \* payloads of 0..MaxPayloadLen bytes
NumKeys       == 3     \* journalist keypairs
MaxSeals      == 2     \* sealBuffer calls in one behaviour
MaxCalls      == 2     \* transfer calls in one behaviour
MaxHandles    == 2     \* blob ids a publisher may answer with
MaxRequests   == 1     \* POST /api/archive requests in one behaviour
MaxMounts     == 2     \* page loads of the viewer in one behaviour
MaxRegistries == 2     \* URLRegistry objects created in one behaviour
MaxArchives   == 2     \* create_archive transactions in one behaviour
MaxClicks     == 2     \* clicks on the Archive button in one behaviour

(* Program constants *)

IV_LEN         == 16   \* randomBytes(16)
TAG_LEN        == 16   \* AES-GCM tag, buffer.slice(16, 32)
AES_KEY_LEN    == 32   \* randomBytes(32)
KEYLEN_OFFSET  == 32   \* view.getUint16(32, false)
HEADER_LEN     == 34   \* buffer.slice(34, 34 + keyLength)
ModulusLength  == 2048 \* generateKeyPair modulusLength
OAEP_HASH_LEN  == 32   \* SHA-256

Byte == 0..255

Min(a, b) == IF a < b THEN a ELSE b

----------------------------------------------------------------------------
(* Byte-string helpers *)

\* ArrayBuffer.prototype.slice(begin, end) for 0 <= begin, end: both ends
\* are clamped to the buffer length, an empty range gives an empty buffer.
Slice(buf, begin, end) ==
    SubSeq(buf, Min(begin, Len(buf)) + 1, Min(end, Len(buf)))

\* buf.writeUInt16LE(n) in place of writeUInt16BE: low byte first.
UInt16LE(n) == << n % 256, (n \div 256) % 256 >>

\* buf.writeUInt16BE(n): high byte first.
UInt16BE(n) == << (n \div 256) % 256, n % 256 >>

\* DataView.getUint16(offset, false): big-endian read of two bytes.
GetUint16BE(buf, offset) == buf[offset + 1] * 256 + buf[offset + 2]

RECURSIVE WSum(_, _)
\* Position-weighted byte sum, the mixing step of the toy tag.
WSum(s, i) ==
    IF i > Len(s) THEN 0 ELSE ((2 * i + 1) * s[i] + WSum(s, i + 1)) % 256

\* crypto.randomBytes(n): the n bytes of the generator's s-th output.  The
\* outputs of the stream are pairwise distinct.
randomBytes(n, s) == [i \in 1..n |-> (53 * s + 7 * i) % 256]

----------------------------------------------------------------------------
(* Keys *)

KeyIds == 1..NumKeys

\* exportKey(keyPair.publicKey): the base64 SPKI string shared with sources.
exportKey(k) == <<"spki", k>>

\* What a popup user can paste as recipient key.
MalformedPem == <<"not-a-valid-key", 0>>
PemStrings == {exportKey(k) : k \in KeyIds} \cup {MalformedPem}

\* The key id a PEM body parses to, 0 when it does not parse.
ParsePem(pem) == IF pem[1] = "spki" /\ pem[2] \in KeyIds THEN pem[2] ELSE 0

\* Size in bytes of an RSA-OAEP ciphertext for the 2048-bit modulus.
ModulusBytes == ModulusLength \div 8

----------------------------------------------------------------------------
(* RSA-OAEP (SHA-256), symbolic *)

\* The k-byte ciphertext of msg under public key id with padding seed.
RsaOaepEncrypt(id, msg, seed) ==
    LET n   == Len(msg)
        chk == (13 * id + seed + n + WSum(msg, 1)) % 256
    IN  [j \in 1..ModulusBytes |->
            IF j = 1 THEN (17 * id) % 256
            ELSE IF j = 2 THEN seed % 256
            ELSE IF j = 3 THEN n
            ELSE IF j <= 3 + n THEN (msg[j - 3] + 29 * id + seed) % 256
            ELSE (chk + 3 * j) % 256]

\* crypto.subtle.decrypt({name: "RSA-OAEP"}, privateKey, data): the message
\* when data is a ciphertext made for this key, an OperationError otherwise
\* (wrong length, wrong key, or padding that does not verify).
RsaOaepDecrypt(id, data) ==
    IF Len(data) # ModulusBytes
    THEN [ok |-> FALSE, error |-> "OperationError"]
    ELSE LET seed == data[2]
             n    == data[3]
             msg  == [i \in 1..Min(n, ModulusBytes - 3) |->
                         (data[3 + i] + 256 * 30 - 29 * id - seed) % 256]
         IN  IF n <= ModulusBytes - 2 * OAEP_HASH_LEN - 2
                /\ RsaOaepEncrypt(id, msg, seed) = data
             THEN [ok |-> TRUE, value |-> msg]
             ELSE [ok |-> FALSE, error |-> "OperationError"]

----------------------------------------------------------------------------
(* AES-256-GCM, symbolic *)

Keystream(key, iv, i) ==
    (key[((i - 1) % Len(key)) + 1] + iv[((i - 1) % Len(iv)) + 1] + i) % 256

GcmCipher(key, iv, pt) ==
    [i \in 1..Len(pt) |-> (pt[i] + Keystream(key, iv, i)) % 256]

GcmTag(key, iv, ct) ==
    LET mix == (Len(ct) + WSum(ct, 1)) % 256
    IN  [j \in 1..TAG_LEN |->
            (key[((j - 1) % Len(key)) + 1] + 3 * iv[((j - 1) % Len(iv)) + 1]
               + mix + 5 * j) % 256]

\* crypto.subtle.decrypt({name: "AES-GCM", iv}, key, data): data is the
\* ciphertext followed by the 16-byte tag.
GcmDecrypt(key, iv, data) ==
    IF Len(data) < TAG_LEN \/ Len(iv) = 0
    THEN [ok |-> FALSE, error |-> "OperationError"]
    ELSE LET ct  == SubSeq(data, 1, Len(data) - TAG_LEN)
             tag == SubSeq(data, Len(data) - TAG_LEN + 1, Len(data))
         IN  IF tag = GcmTag(key, iv, ct)
             THEN [ok |-> TRUE,
                   value |-> [i \in 1..Len(ct) |->
                       (ct[i] + 256 * 3 - Keystream(key, iv, i)) % 256]]
             ELSE [ok |-> FALSE, error |-> "OperationError"]

\* crypto.subtle.importKey("raw", bytes, "AES-GCM", ...): only 128, 192 and
\* 256-bit keys import.
ImportAesKey(raw) ==
    IF Len(raw) \in {16, 24, 32}
    THEN [ok |-> TRUE, value |-> raw]
    ELSE [ok |-> FALSE, error |-> "DataError"]

----------------------------------------------------------------------------
(* Hybrid Sealer: backend sealBuffer *)

HelloWorld == <<104, 101, 108, 108, 111, 32, 119, 111, 114, 108, 100, 33>>

\* Payloads handed to the sealer: the prefixes of "hello world!".
Payloads == {SubSeq(HelloWorld, 1, n) : n \in 0..MaxPayloadLen}

\* crypto.publicEncrypt({key: formattedKey, padding: OAEP, oaepHash:
\* "sha256"}, aesKey): throws when the PEM does not parse; otherwise the
\* padding takes its seed from the generator.
publicEncrypt(publicKeyPem, data, oaepSeed) ==
    IF ParsePem(publicKeyPem) = 0
    THEN [ok |-> FALSE, error |-> "KeyFormatError"]
    ELSE [ok |-> TRUE,
          value |-> RsaOaepEncrypt(ParsePem(publicKeyPem), data, oaepSeed)]

\* sealBuffer that concatenates the tag before the IV.
sealBuffer_tagFirst(buffer, publicKeyPem, aesSeed, ivSeed, oaepSeed) ==
    LET aesKey           == randomBytes(AES_KEY_LEN, aesSeed)
        iv               == randomBytes(IV_LEN, ivSeed)
        encryptedContent == GcmCipher(aesKey, iv, buffer)
        authTag          == GcmTag(aesKey, iv, encryptedContent)
        wrapped          == publicEncrypt(publicKeyPem, aesKey, oaepSeed)
    IN  IF ~wrapped.ok
        THEN [ok |-> FALSE, error |-> wrapped.error]
        ELSE LET encryptedAesKey == wrapped.value
                 keyLengthBuf    == UInt16BE(Len(encryptedAesKey))
             IN  [ok |-> TRUE,
                  value |-> authTag \o iv \o keyLengthBuf
                              \o encryptedAesKey \o encryptedContent]

\* sealBuffer that uses an all-zero IV (Buffer.alloc(16)) instead of
\* randomBytes(16).
sealBuffer_zeroIv(buffer, publicKeyPem, aesSeed, ivSeed, oaepSeed) ==
    LET aesKey           == randomBytes(AES_KEY_LEN, aesSeed)
        iv               == [i \in 1..IV_LEN |-> 0]
        encryptedContent == GcmCipher(aesKey, iv, buffer)
        authTag          == GcmTag(aesKey, iv, encryptedContent)
        wrapped          == publicEncrypt(publicKeyPem, aesKey, oaepSeed)
    IN  IF ~wrapped.ok
        THEN [ok |-> FALSE, error |-> wrapped.error]
        ELSE LET encryptedAesKey == wrapped.value
                 keyLengthBuf    == UInt16BE(Len(encryptedAesKey))
             IN  [ok |-> TRUE,
                  value |-> iv \o authTag \o keyLengthBuf
                              \o encryptedAesKey \o encryptedContent]

\* sealBuffer(buffer, publicKeyPem); aesSeed, ivSeed and oaepSeed are the
\* values the random sources return during the call.
sealBuffer(buffer, publicKeyPem, aesSeed, ivSeed, oaepSeed) ==
    LET aesKey           == randomBytes(AES_KEY_LEN, aesSeed)
        iv               == randomBytes(IV_LEN, ivSeed)
        encryptedContent == GcmCipher(aesKey, iv, buffer)
        authTag          == GcmTag(aesKey, iv, encryptedContent)
        wrapped          == publicEncrypt(publicKeyPem, aesKey, oaepSeed)
    IN  IF ~wrapped.ok
        THEN [ok |-> FALSE, error |-> wrapped.error]
        ELSE LET encryptedAesKey == wrapped.value
                 keyLengthBuf    == UInt16BE(Len(encryptedAesKey))
             IN  [ok |-> TRUE,
                  value |-> iv \o authTag \o keyLengthBuf
                              \o encryptedAesKey \o encryptedContent]

----------------------------------------------------------------------------
(* Hybrid Unsealer: frontend decryptBlob and the viewer's decryptSealedBlob *)

\* decryptBlob that hands back the stored content when the AES key cannot be
\* recovered, instead of letting the error escape.
decryptBlob_fallback(buffer, privateKey) ==
    IF Len(buffer) < KEYLEN_OFFSET + 2
    THEN [ok |-> FALSE, error |-> "RangeError"]
    ELSE LET iv           == Slice(buffer, 0, IV_LEN)
             authTag      == Slice(buffer, IV_LEN, IV_LEN + TAG_LEN)
             keyLength    == GetUint16BE(buffer, KEYLEN_OFFSET)
             encryptedKey == Slice(buffer, HEADER_LEN, HEADER_LEN + keyLength)
             content      == Slice(buffer, HEADER_LEN + keyLength, Len(buffer))
             aesKeyRaw    == RsaOaepDecrypt(privateKey, encryptedKey)
         IN  IF ~aesKeyRaw.ok THEN [ok |-> TRUE, value |-> content]
             ELSE LET aesKey == ImportAesKey(aesKeyRaw.value)
                  IN  IF ~aesKey.ok THEN aesKey
                      ELSE LET contentWithTag == content \o authTag
                           IN  GcmDecrypt(aesKey.value, iv, contentWithTag)

\* utils/crypto decryptBlob(blob, privateKey); privateKey is the key id of
\* the imported CryptoKey.
decryptBlob(buffer, privateKey) ==
    IF Len(buffer) < KEYLEN_OFFSET + 2
    THEN [ok |-> FALSE, error |-> "RangeError"]      \* view.getUint16(32)
    ELSE LET iv           == Slice(buffer, 0, IV_LEN)
             authTag      == Slice(buffer, IV_LEN, IV_LEN + TAG_LEN)
             keyLength    == GetUint16BE(buffer, KEYLEN_OFFSET)
             encryptedKey == Slice(buffer, HEADER_LEN, HEADER_LEN + keyLength)
             content      == Slice(buffer, HEADER_LEN + keyLength, Len(buffer))
             aesKeyRaw    == RsaOaepDecrypt(privateKey, encryptedKey)
         IN  IF ~aesKeyRaw.ok THEN aesKeyRaw
             ELSE LET aesKey == ImportAesKey(aesKeyRaw.value)
                  IN  IF ~aesKey.ok THEN aesKey
                      ELSE LET contentWithTag == content \o authTag
                           IN  GcmDecrypt(aesKey.value, iv, contentWithTag)

\* ArchiveViewer decryptSealedBlob(blob, privateKey): a second copy of the
\* same unpacking inside the viewer component.
decryptSealedBlob(buffer, privateKey) ==
    IF Len(buffer) < KEYLEN_OFFSET + 2
    THEN [ok |-> FALSE, error |-> "RangeError"]
    ELSE LET iv           == Slice(buffer, 0, IV_LEN)
             authTag      == Slice(buffer, IV_LEN, IV_LEN + TAG_LEN)
             keyLength    == GetUint16BE(buffer, KEYLEN_OFFSET)
             encryptedKey == Slice(buffer, HEADER_LEN, HEADER_LEN + keyLength)
             content      == Slice(buffer, HEADER_LEN + keyLength, Len(buffer))
             aesKeyRaw    == RsaOaepDecrypt(privateKey, encryptedKey)
         IN  IF ~aesKeyRaw.ok THEN aesKeyRaw
             ELSE LET aesKey == ImportAesKey(aesKeyRaw.value)
                  IN  IF ~aesKey.ok THEN aesKey
                      ELSE LET contentWithTag == content \o authTag
                           IN  GcmDecrypt(aesKey.value, iv, contentWithTag)

Unsealers == {"decryptBlob", "decryptSealedBlob"}

Unseal(fn, buffer, privateKey) ==
    IF fn = "decryptBlob" THEN decryptBlob(buffer, privateKey)
    ELSE decryptSealedBlob(buffer, privateKey)

----------------------------------------------------------------------------
(* Sealing and unsealing as operations *)

NoWire   == [src |-> 0, how |-> "none", pos |-> 0, bit |-> 0]
NoUnseal == [fn |-> "none", priv |-> 0, res |-> [ok |-> FALSE, error |-> "none"]]

\* The record of one sealBuffer call: its arguments, the values the random
\* sources returned, whether it returned or threw.
SealCall(payload, pem, aesSeed, ivSeed, oaepSeed) ==
    [payload |-> payload, pem |-> pem,
     aesSeed |-> aesSeed, ivSeed |-> ivSeed, oaepSeed |-> oaepSeed,
     ok |-> sealBuffer(payload, pem, aesSeed, ivSeed, oaepSeed).ok]

\* What the recorded call returned.
SealResult(c) == sealBuffer(c.payload, c.pem, c.aesSeed, c.ivSeed, c.oaepSeed)

\* The bytes the unsealer is handed: the sealed blob as recorded, with one
\* bit flipped, or cut to its first pos bytes.
WireBlob ==
    LET sealed == SealResult(sealLog[wire.src]).value
    IN  IF wire.how = "flipped"
        THEN LET old  == sealed[wire.pos]
                 mask == 2 ^ wire.bit
             IN  [sealed EXCEPT ![wire.pos] =
                     IF (old \div mask) % 2 = 1 THEN old - mask ELSE old + mask]
        ELSE IF wire.how = "truncated"
        THEN SubSeq(sealed, 1, wire.pos)
        ELSE sealed

\* One call of sealBuffer.  The generator hands out its next values: the
\* AES key, the IV and, when the recipient key parses, the OAEP seed.
Seal ==
    /\ Len(sealLog) < MaxSeals
    /\ \E payload \in Payloads, pem \in PemStrings :
         LET call == SealCall(payload, pem, rng + 1, rng + 2, rng + 3)
         IN  /\ sealLog' = Append(sealLog, call)
             /\ rng' = IF call.ok THEN rng + 3 ELSE rng + 2
    /\ UNCHANGED <<wire, unsealRes, up, rd, api, chain, browser, popup, tabs>>

\* A sealed blob reaches the viewer unchanged.
Deliver ==
    /\ \E i \in 1..Len(sealLog) :
         /\ sealLog[i].ok
         /\ wire' = [src |-> i, how |-> "intact", pos |-> 0, bit |-> 0]
    /\ unsealRes' = NoUnseal
    /\ UNCHANGED <<sealLog, rng, up, rd, api, chain, browser, popup, tabs>>

\* The viewer opens the blob it was handed with one of its private keys.
Open ==
    /\ wire.how # "none"
    /\ unsealRes = NoUnseal
    /\ \E fn \in Unsealers, k \in KeyIds :
         unsealRes' = [fn |-> fn, priv |-> k, res |-> Unseal(fn, WireBlob, k)]
    /\ UNCHANGED <<sealLog, rng, wire, up, rd, api, chain, browser, popup, tabs>>

\* One bit of the blob is flipped in storage or in transit.
FlipBit ==
    /\ wire.how = "intact"
    /\ \E p \in 1..Len(WireBlob), b \in 0..7 :
         wire' = [wire EXCEPT !.how = "flipped", !.pos = p, !.bit = b]
    /\ unsealRes' = NoUnseal
    /\ UNCHANGED <<sealLog, rng, up, rd, api, chain, browser, popup, tabs>>

\* The blob is cut short.
Truncate ==
    /\ wire.how = "intact"
    /\ \E n \in 0..(Len(WireBlob) - 1) :
         wire' = [wire EXCEPT !.how = "truncated", !.pos = n]
    /\ unsealRes' = NoUnseal
    /\ UNCHANGED <<sealLog, rng, up, rd, api, chain, browser, popup, tabs>>

----------------------------------------------------------------------------
(* Resilient Transfer Layer, write side: backend uploadToWalrusDirectly *)

\* The fixed publisher pool, in the order of the source.
PUBLISHERS == << "publisher.walrus-testnet.walrus.space",
                 "walrus-testnet-publisher.stakely.io",
                 "walrus-testnet-publisher.nodes.guru",
                 "testnet-walrus-publisher.staketab.org" >>

Handles == 1..MaxHandles

\* What fetch(url, {method: "PUT", body}) can end in: the promise rejects
\* (transport error), or a response arrives with a status and a body.
PublisherBodies ==
    {[shape |-> "newlyCreated", blobId |-> h] : h \in Handles}
      \cup {[shape |-> "alreadyCertified", blobId |-> h] : h \in Handles}
      \cup {[shape |-> "other", blobId |-> 0],
            [shape |-> "newlyCreatedNoBlobObject", blobId |-> 0],
            [shape |-> "notJson", blobId |-> 0]}

PublisherResponses ==
    {[rejected |-> TRUE, status |-> 0, body |-> [shape |-> "none", blobId |-> 0]]}
      \cup {[rejected |-> FALSE, status |-> st,
             body |-> [shape |-> "none", blobId |-> 0]] : st \in {429, 500}}
      \cup {[rejected |-> FALSE, status |-> 200, body |-> b] :
               b \in PublisherBodies}

\* response.ok
ResponseOk(r) == ~r.rejected /\ r.status >= 200 /\ r.status <= 299

\* A try block without the else-throw: any response with a success status
\* and a JSON body is accepted, with whatever blob id the body has.
TryPublisher_anyJson(r) ==
    IF r.rejected
    THEN [ok |-> FALSE, error |-> <<"fetch failed">>]
    ELSE IF ~ResponseOk(r)
    THEN [ok |-> FALSE, error |-> <<"Status", r.status>>]
    ELSE IF r.body.shape = "notJson"
    THEN [ok |-> FALSE, error |-> <<"Unexpected token">>]
    ELSE [ok |-> TRUE, blobId |-> r.body.blobId]

\* The body of the try block for one publisher: the blob id when the
\* response is accepted, the error thrown otherwise.
TryPublisher(r) ==
    IF r.rejected
    THEN [ok |-> FALSE, error |-> <<"fetch failed">>]
    ELSE IF ~ResponseOk(r)
    THEN [ok |-> FALSE, error |-> <<"Status", r.status>>]
    ELSE IF r.body.shape = "notJson"
    THEN [ok |-> FALSE, error |-> <<"Unexpected token">>]
    ELSE IF r.body.shape = "newlyCreatedNoBlobObject"
    THEN [ok |-> FALSE, error |-> <<"Cannot read properties of undefined">>]
    ELSE IF r.body.shape = "newlyCreated"
    THEN [ok |-> TRUE, blobId |-> r.body.blobId]
    ELSE IF r.body.shape = "alreadyCertified"
    THEN [ok |-> TRUE, blobId |-> r.body.blobId]
    ELSE [ok |-> FALSE, error |-> <<"Invalid response structure from Walrus">>]

NoError == <<"null">>

UpIdle ==
    [pc        |-> "idle",   \* idle, loop, await, returned, thrown
     calls     |-> 0,        \* calls started so far
     idx       |-> 0,        \* position of the for-of loop in PUBLISHERS
     lastError |-> NoError,
     result    |-> <<>>,     \* the value returned or the message thrown
     attempts  |-> <<>>,     \* publishers this call has sent a PUT to
     inflight  |-> {},       \* publishers whose answer is awaited
     answers   |-> <<>>]     \* what each attempt of this call ended in

\* A pool cursor kept at module level: the call resumes at the publisher
\* after the one the previous call stopped at.
UploadStart_resume ==
    /\ up.pc \in {"idle", "returned", "thrown"}
    /\ up.calls < MaxCalls
    /\ up' = [UpIdle EXCEPT !.pc = "loop", !.calls = up.calls + 1,
                            !.idx = (up.idx % Len(PUBLISHERS)) + 1]
    /\ UNCHANGED <<sealLog, rng, wire, unsealRes, rd, api, chain, browser, popup, tabs>>

\* uploadToWalrusDirectly(fileBuffer) is called: lastError = null and the
\* loop starts at the head of PUBLISHERS.
UploadStart ==
    /\ up.pc \in {"idle", "returned", "thrown"}
    /\ up.calls < MaxCalls
    /\ up' = [UpIdle EXCEPT !.pc = "loop", !.calls = up.calls + 1, !.idx = 1]
    /\ UNCHANGED <<sealLog, rng, wire, unsealRes, rd, api, chain, browser, popup, tabs>>

\* The PUT is issued without await: the loop goes on to the next publisher
\* while the request is still open.
UploadSend_noAwait ==
    /\ up.pc = "loop"
    /\ up.idx <= Len(PUBLISHERS)
    /\ up' = [up EXCEPT !.attempts = Append(@, up.idx),
                        !.inflight = @ \cup {up.idx},
                        !.idx = @ + 1]
    /\ UNCHANGED <<sealLog, rng, wire, unsealRes, rd, api, chain, browser, popup, tabs>>

\* The loop body issues the PUT to the current publisher and awaits it.
UploadSend ==
    /\ up.pc = "loop"
    /\ up.idx <= Len(PUBLISHERS)
    /\ up' = [up EXCEPT !.pc = "await",
                        !.attempts = Append(@, up.idx),
                        !.inflight = @ \cup {up.idx}]
    /\ UNCHANGED <<sealLog, rng, wire, unsealRes, rd, api, chain, browser, popup, tabs>>

\* The catch block keeps the first error (lastError = lastError ?? err).
UploadSettle_firstError ==
    /\ up.pc = "await"
    /\ \E r \in PublisherResponses :
         LET t == TryPublisher(r)
         IN  IF t.ok
             THEN up' = [up EXCEPT !.pc = "returned",
                                   !.inflight = @ \ {up.idx},
                                   !.answers = Append(@, [response |-> r, ok |-> t.ok]),
                                   !.result = <<t.blobId, "active">>]
             ELSE up' = [up EXCEPT !.pc = "loop",
                                   !.inflight = @ \ {up.idx},
                                   !.answers = Append(@, [response |-> r, ok |-> t.ok]),
                                   !.lastError = IF @ = NoError THEN t.error ELSE @,
                                   !.idx = @ + 1]
    /\ UNCHANGED <<sealLog, rng, wire, unsealRes, rd, api, chain, browser, popup, tabs>>

\* The awaited fetch settles: return on an accepted response, otherwise
\* remember the error and continue with the next publisher.
UploadSettle ==
    /\ up.pc = "await"
    /\ \E r \in PublisherResponses :
         LET t == TryPublisher(r)
         IN  IF t.ok
             THEN up' = [up EXCEPT !.pc = "returned",
                                   !.inflight = @ \ {up.idx},
                                   !.answers = Append(@, [response |-> r, ok |-> t.ok]),
                                   !.result = <<t.blobId, "active">>]
             ELSE up' = [up EXCEPT !.pc = "loop",
                                   !.inflight = @ \ {up.idx},
                                   !.answers = Append(@, [response |-> r, ok |-> t.ok]),
                                   !.lastError = t.error,
                                   !.idx = @ + 1]
    /\ UNCHANGED <<sealLog, rng, wire, unsealRes, rd, api, chain, browser, popup, tabs>>

\* The loop has run off the end of the pool.
UploadExhausted ==
    /\ up.pc = "loop"
    /\ up.idx > Len(PUBLISHERS)
    /\ up' = [up EXCEPT !.pc = "thrown",
                 !.result = <<"All Walrus publishers failed. Last error: ",
                              up.lastError>>]
    /\ UNCHANGED <<sealLog, rng, wire, unsealRes, rd, api, chain, browser, popup, tabs>>

NextUpload == UploadStart \/ UploadSend \/ UploadSettle \/ UploadExhausted

----------------------------------------------------------------------------
(* Resilient Transfer Layer, read side: the viewer's fetchHtml *)

\* The fixed aggregator pool, in the order of the source.
AGGREGATORS == << "walrus-testnet-aggregator.nodes.guru",
                  "walrus-testnet-aggregator.stakely.io",
                  "aggregator.walrus-testnet.walrus.space",
                  "testnet-walrus-aggregator.staketab.org" >>

ZipMagic == <<80, 75>>

\* Captures stored on Walrus: a zip archive and bytes that are not a zip.
StoredPayloads == {ZipMagic, <<104>>}

\* An archive as the viewer finds it: what its title says, whether its blob
\* id is known, the bytes stored under the id (sealedFor = 0: stored plain).
Archives ==
    [titleLock : BOOLEAN, blobKnown : BOOLEAN,
     payload : StoredPayloads, sealedFor : {0} \cup KeyIds]

StoredBlob(a) ==
    IF a.sealedFor = 0 THEN a.payload
    ELSE sealBuffer(a.payload, exportKey(a.sealedFor), 1, 2, 3).value

\* The stored bytes with the lowest bit of the first byte flipped.
Corrupted(blob) ==
    [blob EXCEPT ![1] = IF @ % 2 = 1 THEN @ - 1 ELSE @ + 1]

\* What fetch(url) can end in: the promise rejects, a non-success status, or
\* status 200 with the stored bytes or with altered bytes.
AggregatorResponses ==
    {[rejected |-> TRUE, status |-> 0, served |-> "none"],
     [rejected |-> FALSE, status |-> 404, served |-> "none"],
     [rejected |-> FALSE, status |-> 200, served |-> "stored"],
     [rejected |-> FALSE, status |-> 200, served |-> "altered"]}

ServedBlob(a, r) ==
    IF r.served = "stored" THEN StoredBlob(a) ELSE Corrupted(StoredBlob(a))

\* JSZip.loadAsync(blob) and its fallback: the index.html of a zip, the raw
\* text of anything else.
ShowBlob(blob) ==
    IF Len(blob) >= 2 /\ SubSeq(blob, 1, 2) = ZipMagic
    THEN [kind |-> "html", bytes |-> blob]
    ELSE [kind |-> "text", bytes |-> blob]

\* The body of the try block for one aggregator.  done: fetchHtml returns
\* value; otherwise the loop continues, how says why.
TryAggregator(a, key, r) ==
    IF r.rejected
    THEN [done |-> FALSE, how |-> "rejected"]        \* caught by the outer catch
    ELSE IF ~ResponseOk(r)
    THEN [done |-> FALSE, how |-> "status"]          \* explicit continue
    ELSE LET blob == ServedBlob(a, r)
         IN  IF a.titleLock
             THEN IF key = 0
                  THEN [done |-> FALSE, how |-> "noPrivateKey"]    \* thrown, caught
                  ELSE LET d == decryptSealedBlob(blob, key)
                       IN  IF d.ok
                           THEN [done |-> TRUE, how |-> "decrypted",
                                 value |-> ShowBlob(d.value)]
                           ELSE [done |-> FALSE, how |-> "decryptionFailed"]
             ELSE [done |-> TRUE, how |-> "plain", value |-> ShowBlob(blob)]

NoArchive == [titleLock |-> FALSE, blobKnown |-> FALSE,
              payload |-> <<>>, sealedFor |-> 0]

RdIdle ==
    [pc       |-> "idle",    \* idle, loop, await, returned, thrown
     calls    |-> 0,
     version  |-> NoArchive, \* the argument of fetchHtml
     key      |-> 0,         \* journalistPrivateKey, 0 when null
     idx      |-> 0,         \* position of the for-of loop in AGGREGATORS
     result   |-> <<>>,      \* the value returned or the message thrown
     attempts |-> <<>>,      \* aggregators this call has sent a GET to
     inflight |-> {},
     answers  |-> <<>>]      \* what each attempt of this call ended in

\* fetchHtml(version) is called; a version whose blob id is "unknown" is
\* refused before any request.
ReadStart ==
    /\ rd.pc \in {"idle", "returned", "thrown"}
    /\ rd.calls < MaxCalls
    /\ \E a \in Archives, key \in {0} \cup KeyIds :
         rd' = IF a.blobKnown
               THEN [RdIdle EXCEPT !.pc = "loop", !.calls = rd.calls + 1,
                                   !.version = a, !.key = key, !.idx = 1]
               ELSE [RdIdle EXCEPT !.pc = "thrown", !.calls = rd.calls + 1,
                                   !.version = a, !.key = key,
                                   !.result = <<"Version is pending (Blob ID unknown)">>]
    /\ UNCHANGED <<sealLog, rng, wire, unsealRes, up, api, chain, browser, popup, tabs>>

\* The loop body issues the GET to the current aggregator and awaits it.
ReadSend ==
    /\ rd.pc = "loop"
    /\ rd.idx <= Len(AGGREGATORS)
    /\ rd' = [rd EXCEPT !.pc = "await",
                        !.attempts = Append(@, rd.idx),
                        !.inflight = @ \cup {rd.idx}]
    /\ UNCHANGED <<sealLog, rng, wire, unsealRes, up, api, chain, browser, popup, tabs>>

\* The awaited fetch settles and the rest of the try block runs.
ReadSettle ==
    /\ rd.pc = "await"
    /\ \E r \in AggregatorResponses :
         LET t == TryAggregator(rd.version, rd.key, r)
             answer == [responseOk |-> ResponseOk(r), served |-> r.served,
                        how |-> t.how]
         IN  IF t.done
             THEN rd' = [rd EXCEPT !.pc = "returned",
                                   !.inflight = @ \ {rd.idx},
                                   !.answers = Append(@, answer),
                                   !.result = t.value]
             ELSE rd' = [rd EXCEPT !.pc = "loop",
                                   !.inflight = @ \ {rd.idx},
                                   !.answers = Append(@, answer),
                                   !.idx = @ + 1]
    /\ UNCHANGED <<sealLog, rng, wire, unsealRes, up, api, chain, browser, popup, tabs>>

\* The loop has run off the end of the pool.
ReadExhausted ==
    /\ rd.pc = "loop"
    /\ rd.idx > Len(AGGREGATORS)
    /\ rd' = [rd EXCEPT !.pc = "thrown",
                 !.result = <<"Could not fetch content from any node.">>]
    /\ UNCHANGED <<sealLog, rng, wire, unsealRes, up, api, chain, browser, popup, tabs>>

NextRead == ReadStart \/ ReadSend \/ ReadSettle \/ ReadExhausted

----------------------------------------------------------------------------
(* Content fingerprint *)

SHA256_LEN == 32

RECURSIVE MixSum(_, _, _, _)
\* The sum of (w * i + 1) * s[i] for i in lo..hi, modulo 256, by halving the
\* range: the mixing step of the toy digest.
MixSum(s, lo, hi, w) ==
    IF lo > hi THEN 0
    ELSE IF lo = hi THEN ((w * lo + 1) * s[lo]) % 256
    ELSE LET mid == (lo + hi) \div 2
         IN  (MixSum(s, lo, mid, w) + MixSum(s, mid + 1, hi, w)) % 256

\* crypto.createHash("sha256").update(buf).digest(): a toy 32-byte digest of
\* the length and of two sums of the bytes.
Sha256(buf) ==
    LET n == Len(buf)
        a == MixSum(buf, 1, n, 2)
        b == MixSum(buf, 1, n, 0)
    IN  [j \in 1..SHA256_LEN |-> (a * j + b * (j + 3) + n * (2 * j + 1) + 11 * j) % 256]

\* digest("hex"): two hex digits per byte, high nibble first; a digit is
\* modelled by its value 0..15.
ToHex(bytes) ==
    [i \in 1..(2 * Len(bytes)) |->
        IF i % 2 = 1 THEN bytes[(i + 1) \div 2] \div 16
        ELSE bytes[i \div 2] % 16]

\* Buffer.from(hex, "hex") followed by Array.from: the bytes of a string of
\* hex digits (createOnChainArchive; the digest has no "0x" prefix to strip).
FromHex(hex) ==
    [i \in 1..(Len(hex) \div 2) |-> 16 * hex[2 * i - 1] + hex[2 * i]]

----------------------------------------------------------------------------
(* On-chain registry: registry.move *)

\* Sui addresses: the backend's signer and somebody else.
BackendAddress == "0xBACKEND"
Addresses == {BackendAddress, "0xOTHER"}

\* The owner Sui records for a frozen object.
Immutable == "Immutable"

\* URLs a registry or an archive is created for.
RegistryUrls == {"https://example.org/story", "https://example.org/other"}

\* The object store before anything is published.  An object's id is its
\* position in archives or in registries; 0 stands for option::none.
EmptyChain ==
    [archives       |-> <<>>,   \* Archive objects, by object id
     owner          |-> <<>>,   \* owner of each Archive object
     registries     |-> <<>>,   \* URLRegistry objects, by object id
     registry_owner |-> <<>>,   \* owner of each URLRegistry object
     events         |-> <<>>,   \* ArchiveCreated events emitted
     clock_ms       |-> 0]      \* the shared Clock 0x6

\* create_registry(url, ctx): an empty registry, transferred to the sender.
create_registry(c, url, sender) ==
    LET registry == [url               |-> url,
                     all_archive_ids   |-> <<>>,
                     latest_archive_id |-> 0,
                     total_versions    |-> 0]
    IN  [c EXCEPT !.registries = Append(@, registry),
                  !.registry_owner = Append(@, sender)]

\* The Archive object whose previous_archive_id is the archive created last
\* in any registry.
NewArchive_lastCreated(c, url, walrus_blob_id, tusky_file_id, content_hash, title, registry, sender) ==
    [url                 |-> url,
     walrus_blob_id      |-> walrus_blob_id,
     tusky_file_id       |-> tusky_file_id,
     content_hash        |-> content_hash,
     version_number      |-> c.registries[registry].total_versions + 1,
     previous_archive_id |-> Len(c.archives),
     title               |-> title,
     captured_at_ms      |-> c.clock_ms,
     captured_by         |-> sender]

\* Steps 1 and 2 of create_archive: the new version number, the previous
\* id, and the Archive object built from them and from the arguments.
NewArchive(c, url, walrus_blob_id, tusky_file_id, content_hash, title, registry, sender) ==
    [url                 |-> url,
     walrus_blob_id      |-> walrus_blob_id,
     tusky_file_id       |-> tusky_file_id,
     content_hash        |-> content_hash,
     version_number      |-> c.registries[registry].total_versions + 1,
     previous_archive_id |-> c.registries[registry].latest_archive_id,
     title               |-> title,
     captured_at_ms      |-> c.clock_ms,
     captured_by         |-> sender]

\* The registry update that forgets to count the new version.
UpdatedRegistry_notCounted(reg, new_version_number, new_archive_id) ==
    [reg EXCEPT !.latest_archive_id = new_archive_id,
                !.all_archive_ids = Append(@, new_archive_id)]

\* Step 3 of create_archive: the registry after the update.
UpdatedRegistry(reg, new_version_number, new_archive_id) ==
    [reg EXCEPT !.total_versions = new_version_number,
                !.latest_archive_id = new_archive_id,
                !.all_archive_ids = Append(@, new_archive_id)]

\* The Archive is handed to the sender: transfer::public_transfer.
ArchiveOwner_sender(sender) == sender

\* Step 5 of create_archive: transfer::public_freeze_object(archive).
ArchiveOwner(sender) == Immutable

\* create_archive(url, walrus_blob_id, tusky_file_id, content_hash, title,
\* registry, clock_ref, ctx): the object store after the call.
create_archive(c, url, walrus_blob_id, tusky_file_id, content_hash, title, registry, sender) ==
    LET archive == NewArchive(c, url, walrus_blob_id, tusky_file_id,
                              content_hash, title, registry, sender)
        new_archive_id == Len(c.archives) + 1
    IN  [c EXCEPT
           !.archives = Append(@, archive),
           !.owner = Append(@, ArchiveOwner(sender)),
           !.registries[registry] =
               UpdatedRegistry(@, archive.version_number, new_archive_id),
           !.events = Append(@, [archive_id     |-> new_archive_id,
                                 url            |-> archive.url,
                                 walrus_blob_id |-> archive.walrus_blob_id,
                                 tusky_file_id  |-> archive.tusky_file_id,
                                 version_number |-> archive.version_number])]

\* A transaction calling create_registry; the clock has advanced since the
\* transaction before.
CreateRegistry ==
    /\ Len(chain.registries) < MaxRegistries
    /\ \E sender \in Addresses, url \in RegistryUrls :
         chain' = [create_registry(chain, url, sender)
                      EXCEPT !.clock_ms = @ + 1]
    /\ UNCHANGED <<sealLog, rng, wire, unsealRes, up, rd, api, browser, popup, tabs>>

\* A transaction calling create_archive: Sui hands out &mut URLRegistry to
\* the owner of the registry only.
CreateArchive ==
    /\ Len(chain.archives) < MaxArchives
    /\ \E sender \in Addresses, registry \in 1..Len(chain.registries),
          url \in RegistryUrls :
         /\ chain.registry_owner[registry] = sender
         /\ chain' = [create_archive(chain, url, 1, "direct-upload",
                                     <<Len(chain.archives)>>, <<"Story">>,
                                     registry, sender)
                         EXCEPT !.clock_ms = @ + 1]
    /\ UNCHANGED <<sealLog, rng, wire, unsealRes, up, rd, api, browser, popup, tabs>>

\* A transaction moving an object to another address (TransferObjects):
\* open to the owner of any object with the store ability, closed for
\* frozen objects.
TransferObject ==
    /\ \E sender \in Addresses, recipient \in Addresses :
         /\ sender # recipient
         /\ \/ \E id \in 1..Len(chain.archives) :
                  /\ chain.owner[id] = sender
                  /\ chain' = [chain EXCEPT !.owner[id] = recipient]
            \/ \E id \in 1..Len(chain.registries) :
                  /\ chain.registry_owner[id] = sender
                  /\ chain' = [chain EXCEPT !.registry_owner[id] = recipient]
    /\ UNCHANGED <<sealLog, rng, wire, unsealRes, up, rd, api, browser, popup, tabs>>

----------------------------------------------------------------------------
(* Backend: POST /api/archive *)

\* Request fields as the popup sends them; "" and <<>> stand for a missing
\* field.  A title is a sequence of words, "LOCK" is the lock emoji: the
\* title of a captured page may hold one.
Urls   == {"", "https://example.org/story"}
Titles == {<<>>, <<"Story">>, <<"LOCK", "Vault">>}

\* recipientPublicKey absent from the request (Public mode).
NoRecipient == <<"", 0>>

\* What JSZip makes of a captured page: two different zip archives.
Captures == {ZipMagic, ZipMagic \o <<3, 4>>}

\* finalTitle: sealed archives get the lock prefix.
FinalTitle(title, isEncrypted) ==
    IF isEncrypted THEN <<"LOCK">> \o title ELSE title

\* The buffer whose digest becomes contentHashHex, here the plain zip.
HashedBuffer_zip(zipBuffer, finalBuffer) == zipBuffer

\* The buffer whose digest becomes contentHashHex: update(finalBuffer).
HashedBuffer(zipBuffer, finalBuffer) == finalBuffer

\* The registry the backend is configured with.
SUI_REGISTRY_ID == 1

\* The upload is handed the plain zip.
UploadedBuffer_zip(zipBuffer, finalBuffer) == zipBuffer

\* The argument of the upload: uploadToWalrusDirectly(finalBuffer).
UploadedBuffer(zipBuffer, finalBuffer) == finalBuffer

ApiIdle ==
    [pc             |-> "idle",   \* idle, upload, responded
     n              |-> 0,        \* requests received
     uploads        |-> 0,        \* requests that reached the upload
     sui            |-> TRUE,     \* SUI_PACKAGE_ID && SUI_REGISTRY_ID
     url            |-> "",
     title          |-> <<>>,
     recipientPublicKey |-> NoRecipient,
     zipBuffer      |-> <<>>,
     finalBuffer    |-> <<>>,
     isEncrypted    |-> FALSE,
     contentHashHex |-> <<>>,
     fileBuffer     |-> <<>>,     \* argument of uploadToWalrusDirectly
     response       |-> [status |-> 0]]

\* app.post("/api/archive") up to the call of uploadToWalrusDirectly:
\* validation, capture, zip, seal, hash.
ArchiveRequest ==
    /\ api.pc \in {"idle", "responded"}
    /\ api.n < MaxRequests
    /\ \E url \in Urls, title \in Titles,
          recipientPublicKey \in PemStrings \cup {NoRecipient},
          zipBuffer \in Captures, captured \in BOOLEAN :
         LET base == [api EXCEPT !.n = @ + 1, !.url = url, !.title = title,
                        !.recipientPublicKey = recipientPublicKey,
                        !.zipBuffer = <<>>, !.finalBuffer = <<>>,
                        !.isEncrypted = FALSE, !.contentHashHex = <<>>,
                        !.fileBuffer = <<>>]
         IN  IF url = "" \/ title = <<>>
             THEN /\ api' = [base EXCEPT !.pc = "responded",
                            !.response = [status |-> 400,
                               error |-> "Missing required fields: url, title"]]
                  /\ UNCHANGED <<sealLog, rng>>
             ELSE IF ~captured
             THEN /\ api' = [base EXCEPT !.pc = "responded",
                            !.response = [status |-> 500, error |-> "capture"]]
                  /\ UNCHANGED <<sealLog, rng>>
             ELSE IF recipientPublicKey = NoRecipient
             THEN /\ api' = [base EXCEPT !.pc = "upload", !.uploads = @ + 1,
                            !.zipBuffer = zipBuffer,
                            !.finalBuffer = zipBuffer,
                            !.contentHashHex =
                                ToHex(Sha256(HashedBuffer(zipBuffer, zipBuffer))),
                            !.fileBuffer = UploadedBuffer(zipBuffer, zipBuffer)]
                  /\ UNCHANGED <<sealLog, rng>>
             ELSE LET call == SealCall(zipBuffer, recipientPublicKey,
                                       rng + 1, rng + 2, rng + 3)
                  IN  /\ sealLog' = Append(sealLog, call)
                      /\ rng' = IF call.ok THEN rng + 3 ELSE rng + 2
                      /\ IF ~call.ok
                         THEN api' = [base EXCEPT !.pc = "responded",
                                  !.zipBuffer = zipBuffer,
                                  !.finalBuffer = zipBuffer,
                                  !.response = [status |-> 500,
                                     error |-> <<"Encryption failed: ",
                                                 SealResult(call).error>>]]
                         ELSE LET finalBuffer == SealResult(call).value
                              IN  api' = [base EXCEPT !.pc = "upload",
                                     !.uploads = @ + 1,
                                     !.zipBuffer = zipBuffer,
                                     !.finalBuffer = finalBuffer,
                                     !.isEncrypted = TRUE,
                                     !.contentHashHex =
                                         ToHex(Sha256(HashedBuffer(zipBuffer, finalBuffer))),
                                     !.fileBuffer =
                                         UploadedBuffer(zipBuffer, finalBuffer)]
    /\ UNCHANGED <<wire, unsealRes, up, rd, chain, browser, popup, tabs>>

\* The handler after uploadToWalrusDirectly has returned: the on-chain
\* write when the Sui ids are configured, then the 200 response.  A failed
\* transaction lands in the outer catch.  The finished call's frame is gone
\* once its result has been taken.
ArchiveRecord ==
    /\ api.pc = "upload"
    /\ up.calls = api.uploads
    /\ up.pc = "returned"
    /\ LET walrusBlobId == up.result[1]
           tuskyFileId  == "direct-upload"
           finalTitle   == FinalTitle(api.title, api.isEncrypted)
           body == [status |-> 200, title |-> finalTitle,
                    walrusBlobId |-> walrusBlobId,
                    size |-> Len(api.finalBuffer),
                    contentHashHex |-> api.contentHashHex,
                    suiArchiveId |-> 0,
                    isEncrypted |-> api.isEncrypted]
       IN  IF ~api.sui
           THEN /\ api' = [api EXCEPT !.pc = "responded", !.response = body]
                /\ UNCHANGED chain
           ELSE \E txOk \in BOOLEAN :
                  IF txOk
                  THEN /\ chain' = [create_archive(chain, api.url, walrusBlobId,
                                       tuskyFileId, FromHex(api.contentHashHex),
                                       finalTitle, SUI_REGISTRY_ID,
                                       BackendAddress)
                                       EXCEPT !.clock_ms = @ + 1]
                       /\ api' = [api EXCEPT !.pc = "responded",
                              !.response = [body EXCEPT !.suiArchiveId =
                                                Len(chain.archives) + 1]]
                  ELSE /\ api' = [api EXCEPT !.pc = "responded",
                              !.response = [status |-> 500, error |-> "sui"]]
                       /\ UNCHANGED chain
    /\ up' = [UpIdle EXCEPT !.calls = up.calls]
    /\ UNCHANGED <<sealLog, rng, wire, unsealRes, rd, browser, popup, tabs>>

\* uploadToWalrusDirectly threw, and the handler records the capture
\* on-chain all the same, without a blob id.
ArchiveUploadFailed_recorded ==
    /\ api.pc = "upload"
    /\ up.calls = api.uploads
    /\ up.pc = "thrown"
    /\ api' = [api EXCEPT !.pc = "responded",
                  !.response = [status |-> 500, error |-> up.result]]
    /\ chain' = create_archive(chain, api.url, 0, "direct-upload",
                               FromHex(api.contentHashHex), api.title,
                               SUI_REGISTRY_ID, BackendAddress)
    /\ up' = [UpIdle EXCEPT !.calls = up.calls]
    /\ UNCHANGED <<sealLog, rng, wire, unsealRes, rd, browser, popup, tabs>>

\* uploadToWalrusDirectly threw: the outer catch answers 500.
ArchiveUploadFailed ==
    /\ api.pc = "upload"
    /\ up.calls = api.uploads
    /\ up.pc = "thrown"
    /\ api' = [api EXCEPT !.pc = "responded",
                  !.response = [status |-> 500, error |-> up.result]]
    /\ up' = [UpIdle EXCEPT !.calls = up.calls]
    /\ UNCHANGED <<sealLog, rng, wire, unsealRes, rd, chain, browser, popup, tabs>>

----------------------------------------------------------------------------
(* Journalist's browser: utils/crypto key handling and initKeypair *)

\* localStorage.getItem of a key that is not set.
NoItem == <<"null", 0>>

\* exportPrivateKey(keyPair.privateKey): the base64 PKCS#8 string.
exportPrivateKey(k) == <<"pkcs8", k>>

\* A string of base64 characters that is not a DER key.
NotDer == <<"AAAA", 0>>

\* importPrivateKey(pem): atob throws on characters outside base64,
\* importKey("pkcs8", ...) rejects bytes that are not a PKCS#8 RSA key.
importPrivateKey(pem) ==
    IF pem[1] = "pkcs8" /\ pem[2] \in KeyIds
    THEN [ok |-> TRUE, value |-> pem[2]]
    ELSE IF pem = MalformedPem
    THEN [ok |-> FALSE, error |-> "InvalidCharacterError"]
    ELSE [ok |-> FALSE, error |-> "DataError"]

\* importPublicKey that hands back a key whatever the string holds.
importPublicKey_lenient(pem) ==
    IF pem[1] = "spki" /\ pem[2] \in KeyIds
    THEN [ok |-> TRUE, value |-> pem[2]]
    ELSE [ok |-> TRUE, value |-> 1]

\* importPublicKey(pem): atob, then importKey("spki", ...).
importPublicKey(pem) ==
    IF pem[1] = "spki" /\ pem[2] \in KeyIds
    THEN [ok |-> TRUE, value |-> pem[2]]
    ELSE IF pem = MalformedPem
    THEN [ok |-> FALSE, error |-> "InvalidCharacterError"]
    ELSE [ok |-> FALSE, error |-> "DataError"]

\* Strings a key import can be handed.
KeyStrings ==
    PemStrings \cup {exportPrivateKey(k) : k \in KeyIds} \cup {NotDer}

NoResult == [ok |-> FALSE, error |-> "none"]

NoBrowser ==
    [localStorage |-> [journalist_private_key |-> NoItem,
                       journalist_public_key  |-> NoItem],
     journalistPrivateKey |-> 0,        \* React state, 0 when null
     journalistPublicKey  |-> NoItem,   \* React state
     pc        |-> "unmounted",  \* unmounted, import, generate, ready, failed
     mounts    |-> 0,            \* page loads so far
     saved     |-> [private |-> NoItem, public |-> NoItem],  \* savedPrivateKey, savedPublicKey
     generated |-> <<>>,         \* key ids generateKeyPair has returned
     sent      |-> {},           \* requests sent besides blob fetches
     rng       |-> 0,            \* values the browser CSPRNG has returned
     imported  |-> [pem |-> NoItem, res |-> NoResult],   \* last importPublicKey
     sealed    |-> [data |-> <<>>, key |-> 0, res |-> NoResult],  \* last encryptData
     opened    |-> [key |-> 0, res |-> NoResult]]        \* last decryptBlob of it

\* The truthiness test savedPrivateKey && savedPublicKey.
HasPair(ls) ==
    ls.journalist_private_key # NoItem /\ ls.journalist_public_key # NoItem

\* The ArchiveViewer mounts (page load): React state starts null, the
\* effect calls initKeypair, which reads both items from localStorage and
\* suspends at its first await.  This variant never looks at what is stored.
ViewerMount_alwaysGenerate ==
    /\ browser.pc \in {"unmounted", "ready", "failed"}
    /\ browser.mounts < MaxMounts
    /\ browser' = [browser EXCEPT
          !.mounts = @ + 1,
          !.journalistPrivateKey = 0,
          !.journalistPublicKey = NoItem,
          !.saved = [private |-> browser.localStorage.journalist_private_key,
                     public  |-> browser.localStorage.journalist_public_key],
          !.pc = "generate"]
    /\ UNCHANGED <<sealLog, rng, wire, unsealRes, up, rd, api, chain, popup, tabs>>

\* The ArchiveViewer mounts (page load): React state starts null, the
\* effect calls initKeypair, which reads both items from localStorage and
\* suspends at its first await.
ViewerMount ==
    /\ browser.pc \in {"unmounted", "ready", "failed"}
    /\ browser.mounts < MaxMounts
    /\ browser' = [browser EXCEPT
          !.mounts = @ + 1,
          !.journalistPrivateKey = 0,
          !.journalistPublicKey = NoItem,
          !.saved = [private |-> browser.localStorage.journalist_private_key,
                     public  |-> browser.localStorage.journalist_public_key],
          !.pc = IF HasPair(browser.localStorage) THEN "import" ELSE "generate"]
    /\ UNCHANGED <<sealLog, rng, wire, unsealRes, up, rd, api, chain, popup, tabs>>

\* initKeypair, the branch for saved keys: importPrivateKey resolves and the
\* state is set, or it rejects and the catch logs the error.
ViewerImport ==
    /\ browser.pc = "import"
    /\ LET privateKey == importPrivateKey(browser.saved.private)
       IN  IF privateKey.ok
           THEN browser' = [browser EXCEPT
                    !.journalistPrivateKey = privateKey.value,
                    !.journalistPublicKey = browser.saved.public,
                    !.pc = "ready"]
           ELSE browser' = [browser EXCEPT !.pc = "failed"]
    /\ UNCHANGED <<sealLog, rng, wire, unsealRes, up, rd, api, chain, popup, tabs>>

\* Keys that exist somewhere already; generateKeyPair returns another one.
KnownKeys ==
    {browser.generated[i] : i \in 1..Len(browser.generated)}

\* The generate branch that also posts a backup of the exported private key
\* to the backend.
ViewerGenerate_backup ==
    /\ browser.pc = "generate"
    /\ \E k \in KeyIds \ KnownKeys :
         LET publicKey  == exportKey(k)
             privateKey == exportPrivateKey(k)
         IN  browser' = [browser EXCEPT
                 !.generated = Append(@, k),
                 !.journalistPublicKey = publicKey,
                 !.journalistPrivateKey = k,
                 !.localStorage = [journalist_private_key |-> privateKey,
                                   journalist_public_key  |-> publicKey],
                 !.sent = @ \cup {[to |-> "backend", method |-> "POST /api/keys",
                                    body |-> <<privateKey>>]},
                 !.pc = "ready"]
    /\ UNCHANGED <<sealLog, rng, wire, unsealRes, up, rd, api, chain, popup, tabs>>

\* initKeypair, the generate branch: generateKeyPair, exportKey,
\* exportPrivateKey, then both state setters and both setItem calls.
ViewerGenerate ==
    /\ browser.pc = "generate"
    /\ \E k \in KeyIds \ KnownKeys :
         LET publicKey  == exportKey(k)
             privateKey == exportPrivateKey(k)
         IN  browser' = [browser EXCEPT
                 !.generated = Append(@, k),
                 !.journalistPublicKey = publicKey,
                 !.journalistPrivateKey = k,
                 !.localStorage = [journalist_private_key |-> privateKey,
                                   journalist_public_key  |-> publicKey],
                 !.pc = "ready"]
    /\ UNCHANGED <<sealLog, rng, wire, unsealRes, up, rd, api, chain, popup, tabs>>

\* The user clears the site data of the viewer's origin.
ClearSiteData ==
    /\ browser.pc \in {"ready", "failed"}
    /\ HasPair(browser.localStorage)
    /\ browser' = [browser EXCEPT
          !.localStorage = [journalist_private_key |-> NoItem,
                            journalist_public_key  |-> NoItem]]
    /\ UNCHANGED <<sealLog, rng, wire, unsealRes, up, rd, api, chain, popup, tabs>>

\* findArchives: the registry object and then the Archive objects are read
\* from Sui.
SuiQueries ==
    {[to |-> "sui", method |-> "getObject", body |-> << <<"REGISTRY_ID", 0>> >>],
     [to |-> "sui", method |-> "multiGetObjects",
      body |-> << <<"all_archive_ids", 0>> >>]}

FindArchives ==
    /\ browser.pc # "unmounted"
    /\ ~(SuiQueries \subseteq browser.sent)
    /\ browser' = [browser EXCEPT !.sent = @ \cup SuiQueries]
    /\ UNCHANGED <<sealLog, rng, wire, unsealRes, up, rd, api, chain, popup, tabs>>

\* runComparison: the cleaned texts of the two versions go to the AI
\* endpoint of the backend.
AnalyzeRequest ==
    [to |-> "backend", method |-> "POST /api/analyze",
     body |-> << <<"text1", 0>>, <<"text2", 0>> >>]

RunComparison ==
    /\ browser.pc # "unmounted"
    /\ AnalyzeRequest \notin browser.sent
    /\ browser' = [browser EXCEPT !.sent = @ \cup {AnalyzeRequest}]
    /\ UNCHANGED <<sealLog, rng, wire, unsealRes, up, rd, api, chain, popup, tabs>>

\* The blob fetches of the current fetchHtml call: GET <aggregator>/v1/blobs/
\* <walrusBlobId>.
BlobFetches ==
    {[to |-> AGGREGATORS[rd.attempts[i]], method |-> "GET",
      body |-> << <<"walrusBlobId", 1>> >>] : i \in 1..Len(rd.attempts)}

\* Every request the viewer has sent.
ViewerRequests == browser.sent \cup BlobFetches

----------------------------------------------------------------------------
(* Frontend sealer: utils/crypto encryptData *)

FRONT_IV_LEN == 12     \* getRandomValues(new Uint8Array(12))

\* new Uint8Array(new Uint16Array([n]).buffer): the two bytes of n in the
\* byte order of the platform.
Uint16ArrayBytes(n, littleEndian) ==
    IF littleEndian THEN << n % 256, (n \div 256) % 256 >>
    ELSE << (n \div 256) % 256, n % 256 >>

\* encryptData(data, publicKey); publicKey is the key id of the imported
\* CryptoKey, the seeds are what the browser's random source returns.
\* WebCrypto's AES-GCM encrypt returns the ciphertext with the tag appended.
encryptData(data, publicKey, aesSeed, ivSeed, oaepSeed, littleEndian) ==
    LET rawAesKey        == randomBytes(AES_KEY_LEN, aesSeed)
        iv               == randomBytes(FRONT_IV_LEN, ivSeed)
        ct               == GcmCipher(rawAesKey, iv, data)
        encryptedContent == ct \o GcmTag(rawAesKey, iv, ct)
        encryptedAesKey  == RsaOaepEncrypt(publicKey, rawAesKey, oaepSeed)
        keyLength        == Uint16ArrayBytes(Len(encryptedAesKey), littleEndian)
    IN  iv \o keyLength \o encryptedAesKey \o encryptedContent

\* A caller imports a public key string.
ImportPublicKey ==
    /\ \E pem \in KeyStrings :
         browser' = [browser EXCEPT
             !.imported = [pem |-> pem, res |-> importPublicKey(pem)]]
    /\ UNCHANGED <<sealLog, rng, wire, unsealRes, up, rd, api, chain, popup, tabs>>

\* A caller seals data with the imported key.
EncryptData ==
    /\ browser.imported.res.ok
    /\ browser.rng < 3 * MaxSeals
    /\ \E data \in Payloads, littleEndian \in BOOLEAN :
         browser' = [browser EXCEPT
             !.rng = @ + 3,
             !.sealed = [data |-> data, key |-> browser.imported.res.value,
                         res |-> [ok |-> TRUE,
                                  value |-> encryptData(data,
                                      browser.imported.res.value,
                                      browser.rng + 1, browser.rng + 2,
                                      browser.rng + 3, littleEndian)]],
             !.opened = [key |-> 0, res |-> NoResult]]
    /\ UNCHANGED <<sealLog, rng, wire, unsealRes, up, rd, api, chain, popup, tabs>>

\* The blob encryptData returned is handed to decryptBlob.
DecryptData ==
    /\ browser.sealed.res.ok
    /\ browser.opened.key = 0
    /\ \E k \in KeyIds :
         browser' = [browser EXCEPT
             !.opened = [key |-> k,
                         res |-> decryptBlob(browser.sealed.res.value, k)]]
    /\ UNCHANGED <<sealLog, rng, wire, unsealRes, up, rd, api, chain, popup, tabs>>

----------------------------------------------------------------------------
(* Extension popup: popup.js *)

\* What the recipient-key textarea can hold: nothing, blanks, a pasted key.
Blank == <<" ", 0>>
KeyInputs == {NoRecipient, Blank, exportKey(1)}

\* recipientKeyInput.value.trim()
Trim(value) == IF value = Blank THEN NoRecipient ELSE value

\* tabs[0] as chrome.tabs.query hands it over: no tab, a tab without url,
\* a tab without title, a tab with both.
NoTab == [present |-> FALSE, url |-> "", title |-> ""]
ActiveTabs ==
    {NoTab,
     [present |-> TRUE, url |-> "", title |-> ""],
     [present |-> TRUE, url |-> "https://example.org/story", title |-> ""],
     [present |-> TRUE, url |-> "https://example.org/story", title |-> "Story"]}

\* How the fetch of /api/archive and the reading of its answer can end.
ArchiveOutcomes == {"networkError", "notJson", "httpError", "notOk", "ok"}

NoPopup ==
    [isWhistleblowerMode |-> FALSE,
     disabled     |-> FALSE,         \* button.disabled
     recipientKey |-> NoRecipient,   \* recipientKeyInput.value
     pc           |-> "idle",        \* idle, query, fetch
     clicks       |-> 0,             \* clicks on the Archive button so far
     clickMode    |-> FALSE,         \* the mode at the moment of the click
     inflight     |-> 0,             \* requests sent and not yet answered
     sent         |-> <<>>,          \* the requests sent, with clickMode
     status       |-> "",            \* statusEl.textContent
     ended        |-> "none"]        \* how the last operation ended

\* Click on "Public": the mode toggle handler.
PublicModeClick ==
    /\ popup.isWhistleblowerMode
    /\ popup' = [popup EXCEPT !.isWhistleblowerMode = FALSE]
    /\ UNCHANGED <<sealLog, rng, wire, unsealRes, up, rd, api, chain, browser, tabs>>

\* Click on "Whistleblower": the mode toggle handler.
SealedModeClick ==
    /\ ~popup.isWhistleblowerMode
    /\ popup' = [popup EXCEPT !.isWhistleblowerMode = TRUE]
    /\ UNCHANGED <<sealLog, rng, wire, unsealRes, up, rd, api, chain, browser, tabs>>

\* The user edits the recipient-key textarea.
EditRecipientKey ==
    /\ \E value \in KeyInputs \ {popup.recipientKey} :
         popup' = [popup EXCEPT !.recipientKey = value]
    /\ UNCHANGED <<sealLog, rng, wire, unsealRes, up, rd, api, chain, browser, tabs>>

\* The click handler that leaves the button enabled.
ArchiveClick_enabled ==
    /\ ~popup.disabled
    /\ popup.clicks < MaxClicks
    /\ popup' = [popup EXCEPT !.clicks = @ + 1,
                              !.clickMode = popup.isWhistleblowerMode,
                              !.status = "Reading current tab",
                              !.pc = "query"]
    /\ UNCHANGED <<sealLog, rng, wire, unsealRes, up, rd, api, chain, browser, tabs>>

\* Click on the Archive button (a disabled button gets no click event):
\* the handler disables the button and calls chrome.tabs.query.
ArchiveClick ==
    /\ ~popup.disabled
    /\ popup.clicks < MaxClicks
    /\ popup' = [popup EXCEPT !.disabled = TRUE,
                              !.clicks = @ + 1,
                              !.clickMode = popup.isWhistleblowerMode,
                              !.status = "Reading current tab",
                              !.pc = "query"]
    /\ UNCHANGED <<sealLog, rng, wire, unsealRes, up, rd, api, chain, browser, tabs>>

\* The callback of chrome.tabs.query up to its first await: the tab is
\* checked, the mode and the key are read, the request is sent.
TabsQueried ==
    /\ popup.pc = "query"
    /\ \E tab \in ActiveTabs :
         LET url   == tab.url
             title == IF tab.title # "" THEN tab.title ELSE tab.url
             recipientPublicKey ==
                 IF popup.isWhistleblowerMode THEN Trim(popup.recipientKey)
                 ELSE NoRecipient
         IN  IF ~tab.present \/ tab.url = ""
             THEN popup' = [popup EXCEPT
                     !.status = "Could not read active tab URL.",
                     !.disabled = FALSE, !.pc = "idle", !.ended = "noTabUrl"]
             ELSE IF popup.isWhistleblowerMode /\ recipientPublicKey = NoRecipient
             THEN popup' = [popup EXCEPT
                     !.status = "Please paste recipient's public key",
                     !.disabled = FALSE, !.pc = "idle", !.ended = "noKey"]
             ELSE popup' = [popup EXCEPT
                     !.status = IF popup.isWhistleblowerMode
                                THEN "Sealing archive for recipient"
                                ELSE "Archiving to backend",
                     !.sent = Append(@, [url |-> url, title |-> title,
                                 recipientPublicKey |-> recipientPublicKey,
                                 clickMode |-> popup.clickMode]),
                     !.inflight = @ + 1,
                     !.pc = "fetch"]
    /\ UNCHANGED <<sealLog, rng, wire, unsealRes, up, rd, api, chain, browser, tabs>>

\* The rest of the callback: fetch and resp.json() settle, the status is
\* set in the try or in the catch, and finally enables the button.
FetchSettled ==
    /\ popup.pc = "fetch"
    /\ \E outcome \in ArchiveOutcomes :
         popup' = [popup EXCEPT
             !.status = IF outcome = "ok" THEN "Archived!" ELSE "error",
             !.inflight = @ - 1,
             !.disabled = FALSE,
             !.pc = "idle",
             !.ended = outcome]
    /\ UNCHANGED <<sealLog, rng, wire, unsealRes, up, rd, api, chain, browser, tabs>>

----------------------------------------------------------------------------
(* Two viewer tabs of one origin: initKeypair against a shared localStorage *)

TabIds == 1..2

NoTabState ==
    [pc     |-> "unmounted",   \* unmounted, import, generate, setPublic, ready, failed
     mounts |-> 0,
     saved  |-> [private |-> NoItem, public |-> NoItem],
     journalistPrivateKey |-> 0,
     journalistPublicKey  |-> NoItem]

NoTabs ==
    [localStorage |-> [journalist_private_key |-> NoItem,
                       journalist_public_key  |-> NoItem],
     generated    |-> {},      \* key ids generateKeyPair has returned
     tab          |-> [t \in TabIds |-> NoTabState]]

\* The tab loads the viewer: React state starts null, initKeypair reads both
\* items and suspends at its first await.
TabMount(t) ==
    /\ tabs.tab[t].pc \in {"unmounted", "ready", "failed"}
    /\ tabs.tab[t].mounts < MaxMounts
    /\ tabs' = [tabs EXCEPT !.tab[t] =
          [pc     |-> IF HasPair(tabs.localStorage) THEN "import" ELSE "generate",
           mounts |-> tabs.tab[t].mounts + 1,
           saved  |-> [private |-> tabs.localStorage.journalist_private_key,
                       public  |-> tabs.localStorage.journalist_public_key],
           journalistPrivateKey |-> 0,
           journalistPublicKey  |-> NoItem]]
    /\ UNCHANGED <<sealLog, rng, wire, unsealRes, up, rd, api, chain, browser, popup>>

\* The branch for saved keys, as in ViewerImport.
TabImport(t) ==
    /\ tabs.tab[t].pc = "import"
    /\ LET privateKey == importPrivateKey(tabs.tab[t].saved.private)
       IN  IF privateKey.ok
           THEN tabs' = [tabs EXCEPT
                    !.tab[t].journalistPrivateKey = privateKey.value,
                    !.tab[t].journalistPublicKey = tabs.tab[t].saved.public,
                    !.tab[t].pc = "ready"]
           ELSE tabs' = [tabs EXCEPT !.tab[t].pc = "failed"]
    /\ UNCHANGED <<sealLog, rng, wire, unsealRes, up, rd, api, chain, browser, popup>>

\* The generate branch up to the first setItem: the awaits resolve, both
\* state setters run, and the private key is written to localStorage.
TabGenerate(t) ==
    /\ tabs.tab[t].pc = "generate"
    /\ \E k \in KeyIds \ tabs.generated :
         tabs' = [tabs EXCEPT
             !.generated = @ \cup {k},
             !.tab[t].journalistPublicKey = exportKey(k),
             !.tab[t].journalistPrivateKey = k,
             !.localStorage.journalist_private_key = exportPrivateKey(k),
             !.tab[t].pc = "setPublic"]
    /\ UNCHANGED <<sealLog, rng, wire, unsealRes, up, rd, api, chain, browser, popup>>

\* The second setItem: the public key is written to localStorage.  Another
\* tab runs in its own process; localStorage has no lock across the two
\* calls.
TabSetPublic(t) ==
    /\ tabs.tab[t].pc = "setPublic"
    /\ tabs' = [tabs EXCEPT
          !.localStorage.journalist_public_key = tabs.tab[t].journalistPublicKey,
          !.tab[t].pc = "ready"]
    /\ UNCHANGED <<sealLog, rng, wire, unsealRes, up, rd, api, chain, browser, popup>>

----------------------------------------------------------------------------
(* Specifications of the sealing protocol *)

vars == <<sealLog, rng, wire, unsealRes, up, rd, api, chain, browser, popup, tabs>>

\* Nothing sealed, nothing delivered, no transfer under way.
Init ==
    /\ sealLog = <<>>
    /\ rng = 0
    /\ wire = NoWire
    /\ unsealRes = NoUnseal
    /\ up = UpIdle
    /\ rd = RdIdle
    /\ api = ApiIdle
    /\ chain = EmptyChain
    /\ browser = NoBrowser
    /\ popup = NoPopup
    /\ tabs = NoTabs

\* A backend sealing one payload after another.
NextSeal == Seal

SpecSeal == Init /\ [][NextSeal]_vars

\* The state after a backend whose generator has already returned d values
\* has sealed a payload.
OpenInit ==
    /\ \E payload \in Payloads, pem \in PemStrings, d \in 0..MaxSeals :
         LET call == SealCall(payload, pem, d + 1, d + 2, d + 3)
         IN  /\ sealLog = <<call>>
             /\ rng = IF call.ok THEN d + 3 ELSE d + 2
    /\ wire = NoWire
    /\ unsealRes = NoUnseal
    /\ up = UpIdle
    /\ rd = RdIdle
    /\ api = ApiIdle
    /\ chain = EmptyChain
    /\ browser = NoBrowser
    /\ popup = NoPopup
    /\ tabs = NoTabs

\* Deliveries of the sealed blob, untouched, and openings by a viewer.
NextOpen == Deliver \/ Open

SpecOpen == OpenInit /\ [][NextOpen]_vars

\* The state after the first seal of a backend, made for journalist 1, has
\* been delivered.
TamperInit ==
    /\ \E payload \in Payloads :
         sealLog = <<SealCall(payload, exportKey(1), 1, 2, 3)>>
    /\ wire = [src |-> 1, how |-> "intact", pos |-> 0, bit |-> 0]
    /\ rng = 3
    /\ unsealRes = NoUnseal
    /\ up = UpIdle
    /\ rd = RdIdle
    /\ api = ApiIdle
    /\ chain = EmptyChain
    /\ browser = NoBrowser
    /\ popup = NoPopup
    /\ tabs = NoTabs

\* One alteration of the delivered blob, then openings.
NextTamper == FlipBit \/ Truncate \/ Open

SpecTamper == TamperInit /\ [][NextTamper]_vars

\* Calls of the upload against publishers that answer as they please.
SpecUpload == Init /\ [][NextUpload]_vars

\* Calls of fetchHtml against aggregators that answer as they please.
SpecRead == Init /\ [][NextRead]_vars

\* The backend and the viewer are separate processes that share no state: a
\* behaviour follows the calls of one of them.  The captures read are zips.
NextTransfer ==
    \/ (rd = RdIdle /\ UploadStart)
    \/ (rd = RdIdle /\ UploadSend)
    \/ (rd = RdIdle /\ UploadSettle)
    \/ (rd = RdIdle /\ UploadExhausted)
    \/ (up = UpIdle /\ ReadStart /\ rd'.version.payload = ZipMagic)
    \/ (up = UpIdle /\ ReadSend)
    \/ (up = UpIdle /\ ReadSettle)
    \/ (up = UpIdle /\ ReadExhausted)

SpecTransfer == Init /\ [][NextTransfer]_vars

\* The same calls under the scheduling the event loop gives: a loop that can
\* take its next step takes it.  Whether an awaited fetch ever settles is up
\* to the endpoint: neither loop arms a timer or passes an AbortSignal, so
\* nothing obliges UploadSettle or ReadSettle to happen.
SpecTransferLive ==
    /\ SpecTransfer
    /\ WF_vars(UploadSend) /\ WF_vars(UploadExhausted)
    /\ WF_vars(ReadSend) /\ WF_vars(ReadExhausted)

\* A backend started with or without the Sui ids in its environment.
ArchiveInit ==
    /\ sealLog = <<>>
    /\ rng = 0
    /\ wire = NoWire
    /\ unsealRes = NoUnseal
    /\ up = UpIdle
    /\ rd = RdIdle
    /\ \E sui \in BOOLEAN : api = [ApiIdle EXCEPT !.sui = sui]
    /\ chain = create_registry(EmptyChain, "https://example.org/story",
                               BackendAddress)
    /\ browser = NoBrowser
    /\ popup = NoPopup
    /\ tabs = NoTabs

\* The answers of publishers that are either unreachable or accept the blob.
ArchivePublisherResponses ==
    {r \in PublisherResponses : r.rejected \/ TryPublisher(r).ok}

\* Archive requests handled one after the other; the upload runs when the
\* handler has called it, against publishers that are unreachable or accept.
NextArchive ==
    \/ ArchiveRequest
    \/ (api.pc = "upload" /\ up.calls < api.uploads /\ UploadStart)
    \/ UploadSend
    \/ (UploadSettle /\ up'.answers[Len(up'.answers)].response
                           \in ArchivePublisherResponses)
    \/ UploadExhausted
    \/ ArchiveRecord
    \/ ArchiveUploadFailed

SpecArchive == ArchiveInit /\ [][NextArchive]_vars

\* The viewer in a fresh browser: page loads, searches, comparisons, and one
\* fetchHtml of a capture marked as sealed, with the key the viewer holds
\* once initKeypair has ended, against aggregators that serve the stored
\* blob.  The user acts between the steps of the fetch loop, not during.
NextViewer ==
    \/ (rd.pc \notin {"loop", "await"} /\ ViewerMount)
    \/ ViewerImport
    \/ ViewerGenerate
    \/ (rd.pc \notin {"loop", "await"} /\ ClearSiteData)
    \/ (rd.pc \notin {"loop", "await"} /\ FindArchives)
    \/ (rd.pc \notin {"loop", "await"} /\ RunComparison)
    \/ (/\ browser.pc \in {"ready", "failed"} /\ rd.calls = 0 /\ ReadStart
        /\ rd'.key = browser.journalistPrivateKey
        /\ rd'.version.blobKnown /\ rd'.version.titleLock
        /\ rd'.version.payload = ZipMagic)
    \/ ReadSend
    \/ (ReadSettle /\ rd'.answers[Len(rd'.answers)].served = "stored")
    \/ ReadExhausted

SpecViewer == Init /\ [][NextViewer]_vars

\* Key strings handed to importPublicKey, next to one sealBuffer call of the
\* backend.
NextKeyFormat ==
    \/ ImportPublicKey
    \/ (sealLog = <<>> /\ Seal)

SpecKeyFormat == Init /\ [][NextKeyFormat]_vars

\* The key and sealing utilities of the frontend used together.
NextFrontend ==
    \/ ImportPublicKey
    \/ EncryptData
    \/ DecryptData

SpecFrontend == Init /\ [][NextFrontend]_vars

\* Transactions against the published package, sent by anybody: the two
\* entry functions and transfers of objects.
NextRegistry == CreateRegistry \/ CreateArchive \/ TransferObject

SpecRegistry == Init /\ [][NextRegistry]_vars

\* The user in front of the popup, and the callbacks of its Archive button.
NextPopup ==
    \/ PublicModeClick
    \/ SealedModeClick
    \/ EditRecipientKey
    \/ ArchiveClick
    \/ TabsQueried
    \/ FetchSettled

SpecPopup == Init /\ [][NextPopup]_vars

\* Two tabs of the viewer opened in a fresh browser profile.
NextTabs ==
    \/ \E t \in TabIds : TabMount(t)
    \/ \E t \in TabIds : TabImport(t)
    \/ \E t \in TabIds : TabGenerate(t)
    \/ \E t \in TabIds : TabSetPublic(t)

SpecTabs == Init /\ [][NextTabs]_vars

----------------------------------------------------------------------------
(* Properties of the sealing protocol *)

\* The sealBuffer call whose blob the viewer holds.
WireCall == sealLog[wire.src]

Opened == unsealRes.fn # "none"

\* C1 (SpecOpen).  Round trip: a blob made by sealBuffer(payload, pub) and
\* delivered unchanged is opened by decryptBlob and by decryptSealedBlob with
\* the private key of pub, and the result is exactly payload, the empty
\* payload included.
THM_C1_RoundTrip ==
    (Opened /\ wire.how = "intact" /\ unsealRes.priv = ParsePem(WireCall.pem))
        => (unsealRes.res.ok /\ unsealRes.res.value = WireCall.payload)

\* The viewer has opened a sealed empty payload with the matching key.
W_C1_EmptyOpened ==
    /\ Opened /\ wire.how = "intact"
    /\ unsealRes.fn = "decryptSealedBlob"
    /\ unsealRes.priv = ParsePem(WireCall.pem)
    /\ WireCall.payload = <<>>
    /\ unsealRes.res.ok

\* C2 (SpecSeal).  Every blob sealBuffer returns is IV (16 bytes), AuthTag
\* (16 bytes), KeyLength (2 bytes, big-endian, the byte length of the wrapped
\* key), WrappedKey, Ciphertext, in this order, and is 16 + 16 + 2 +
\* len(WrappedKey) + len(Ciphertext) bytes long.
THM_C2_Layout ==
    \A n \in 1..Len(sealLog) :
        sealLog[n].ok =>
            LET c       == sealLog[n]
                blob    == SealResult(c).value
                aesKey  == randomBytes(AES_KEY_LEN, c.aesSeed)
                iv      == randomBytes(IV_LEN, c.ivSeed)
                ct      == GcmCipher(aesKey, iv, c.payload)
                tag     == GcmTag(aesKey, iv, ct)
                wrapped == RsaOaepEncrypt(ParsePem(c.pem), aesKey, c.oaepSeed)
                kl      == Len(wrapped)
            IN  /\ Len(blob) = 16 + 16 + 2 + kl + Len(ct)
                /\ SubSeq(blob, 1, 16) = iv
                /\ SubSeq(blob, 17, 32) = tag
                /\ blob[33] = kl \div 256 /\ blob[34] = kl % 256
                /\ SubSeq(blob, 35, 34 + kl) = wrapped
                /\ SubSeq(blob, 35 + kl, Len(blob)) = ct

\* A non-empty payload has been sealed.
W_C2_Sealed ==
    \E n \in 1..Len(sealLog) :
        sealLog[n].ok /\ Len(sealLog[n].payload) = MaxPayloadLen

\* C3 (SpecOpen).  Key mismatch: opening a blob sealed for public key A with
\* a private key that is not the pair of A fails; no payload is returned.
THM_C3_KeyMismatch ==
    (Opened /\ wire.how = "intact" /\ unsealRes.priv # ParsePem(WireCall.pem))
        => ~unsealRes.res.ok

\* The viewer has tried a blob sealed for another journalist.
W_C3_WrongKeyTried ==
    /\ Opened /\ wire.how = "intact"
    /\ unsealRes.priv # ParsePem(WireCall.pem)
    /\ unsealRes.res = [ok |-> FALSE, error |-> "OperationError"]

\* C4 (SpecTamper).  Tamper detection: unseal returns a payload only if the
\* blob bytes are exactly those sealBuffer produced; altering any bit of IV,
\* AuthTag, KeyLength, WrappedKey or Ciphertext makes unseal fail.
CEX_C4_TamperDetected ==
    (Opened /\ unsealRes.res.ok) => WireBlob = SealResult(WireCall).value

\* C5 (SpecTamper).  Undifferentiated failure: whatever makes unseal fail
\* (wrong key, truncated blob, also below the 34-byte header, corrupted tag,
\* KeyLength past the end), the error is of the kind a wrong key gives.
CEX_C5_SingleErrorKind ==
    (Opened /\ ~unsealRes.res.ok) =>
        \A k \in KeyIds \ {ParsePem(WireCall.pem)} :
            unsealRes.res.error =
                Unseal(unsealRes.fn, SealResult(WireCall).value, k).error

\* The IV field of a sealed blob.
IvOf(blob) == SubSeq(blob, 1, IV_LEN)

\* The symmetric key a sealed blob carries, as its recipient recovers it.
AesKeyOf(blob, id) ==
    RsaOaepDecrypt(id, SubSeq(blob, HEADER_LEN + 1,
                              HEADER_LEN + GetUint16BE(blob, KEYLEN_OFFSET)))

\* C6 (SpecSeal).  Freshness: no two seal operations use the same IV or the
\* same symmetric key, so two seals, also of the same payload for the same
\* recipient, give different blobs.
THM_C6_Freshness ==
    \A m \in 1..Len(sealLog), n \in 1..Len(sealLog) :
        (m < n /\ sealLog[m].ok /\ sealLog[n].ok) =>
            LET a == SealResult(sealLog[m]).value
                b == SealResult(sealLog[n]).value
            IN  /\ IvOf(a) # IvOf(b)
                /\ AesKeyOf(a, ParsePem(sealLog[m].pem)).value
                     # AesKeyOf(b, ParsePem(sealLog[n].pem)).value
                /\ a # b

\* The same payload has been sealed twice for the same recipient.
W_C6_SealedTwice ==
    /\ Len(sealLog) = 2
    /\ sealLog[1].ok /\ sealLog[2].ok
    /\ sealLog[1].payload = sealLog[2].payload
    /\ sealLog[1].pem = sealLog[2].pem

----------------------------------------------------------------------------
(* Properties of the transfer layer *)

\* <<1, 2, ..., n>>: the first n endpoints of a pool, in pool order.
InPoolOrder(n) == [i \in 1..n |-> i]

THM_C8_WriteExhaustion ==
    up.pc = "thrown" =>
        /\ Len(PUBLISHERS) = 4
        /\ up.attempts = InPoolOrder(Len(PUBLISHERS))
        /\ Len(up.answers) = Len(PUBLISHERS)
        /\ \A i \in 1..Len(up.answers) : ~up.answers[i].ok
        /\ up.result[2] =
             TryPublisher(up.answers[Len(PUBLISHERS)].response).error

\* The upload has thrown after publishers failed in different ways.
W_C8_AllFailed ==
    /\ up.pc = "thrown"
    /\ up.answers[1].response # up.answers[Len(PUBLISHERS)].response
    /\ up.result[2] = <<"Status", 500>>

\* C9 (SpecRead).  Read failover: a read tries the aggregators in the fixed
\* order, each at most once, returns the blob of the first aggregator that
\* answers successfully, and when all fail it throws the exhaustion failure
\* carrying the last attempt's error.
CEX_C9_ReadFailover ==
    /\ rd.attempts = InPoolOrder(Len(rd.attempts))
    /\ rd.pc = "returned" =>
         \A i \in 1..Len(rd.answers) :
             rd.answers[i].responseOk => i = Len(rd.answers)
    /\ (rd.pc = "thrown" /\ rd.attempts # <<>>) =>
         /\ \A i \in 1..Len(rd.answers) : ~rd.answers[i].responseOk
         /\ Len(rd.result) = 2
         /\ rd.result[2] = rd.answers[Len(rd.answers)].how

\* C10 (SpecRead).  Return on first success: within one write or read call,
\* once an endpoint has answered successfully no later endpoint of the pool
\* is contacted, so at most one endpoint accepts the blob per write call.
CEX_C10_StopAtFirstSuccess ==
    /\ \A i \in 1..Len(up.answers) : up.answers[i].ok => i = Len(up.attempts)
    /\ Cardinality({i \in 1..Len(up.answers) : up.answers[i].ok}) <= 1
    /\ \A i \in 1..Len(rd.answers) :
           rd.answers[i].responseOk => i = Len(rd.attempts)

\* C11 (SpecUpload).  A publisher's answer counts as success exactly when
\* it has a success status and a body of the newlyCreated or the
\* alreadyCertified shape, and the handle returned is the blob id of that
\* body; any other outcome (transport error, non-success status, success
\* status with another body) is a failed attempt, after which the next
\* request goes to the next publisher, never to the same one again.
THM_C11_SuccessShapes ==
    /\ \A i \in 1..Len(up.answers) :
           LET r == up.answers[i].response
           IN  /\ up.answers[i].ok <=>
                     /\ ResponseOk(r)
                     /\ r.body.shape \in {"newlyCreated", "alreadyCertified"}
               /\ up.answers[i].ok =>
                     /\ up.pc = "returned" /\ i = Len(up.answers)
                     /\ up.result = <<r.body.blobId, "active">>
               /\ (~up.answers[i].ok /\ i < Len(up.attempts)) =>
                     up.attempts[i + 1] = up.attempts[i] + 1
    /\ \A i \in 1..Len(up.attempts), j \in 1..Len(up.attempts) :
           up.attempts[i] = up.attempts[j] => i = j
    /\ up.pc = "returned" => up.answers[Len(up.answers)].ok

\* A call has returned the blob id of an alreadyCertified answer after a
\* publisher answered 200 with a body of neither shape.
W_C11_CertifiedAfterOther ==
    /\ up.pc = "returned"
    /\ Len(up.answers) = 2
    /\ up.answers[1].response.status = 200
    /\ up.answers[1].response.body.shape = "other"
    /\ up.answers[2].response.body.shape = "alreadyCertified"
    /\ up.result[1] = up.answers[2].response.body.blobId

\* The attempts of a transfer call c so far are sequential: at most one
\* request is open, it is the one issued last, and every request issued
\* before it has been answered.
Sequential(c) ==
    /\ Cardinality(c.inflight) <= 1
    /\ Len(c.answers) <= Len(c.attempts)
    /\ Len(c.attempts) <= Len(c.answers) + 1
    /\ c.inflight = IF Len(c.attempts) > Len(c.answers)
                    THEN {c.attempts[Len(c.attempts)]} ELSE {}
    /\ c.inflight # {} <=> c.pc = "await"

CEX_C13_BoundedWait ==
    /\ (up.pc \in {"loop", "await"}) ~> (up.pc \in {"returned", "thrown"})
    /\ (rd.pc \in {"loop", "await"}) ~> (rd.pc \in {"returned", "thrown"})

\* C14 (SpecRead).  Cryptographic errors are never retried: when unsealing
\* the fetched blob fails (wrong key, corrupted blob) or no private key is
\* available, that attempt is the last one of the read, and the read throws
\* the decryption failure, not the transfer failure.
CEX_C14_NoCryptoRetry ==
    \A i \in 1..Len(rd.answers) :
        rd.answers[i].how \in {"decryptionFailed", "noPrivateKey"} =>
            /\ Len(rd.attempts) = i
            /\ rd.pc # "returned"
            /\ rd.pc = "thrown" =>
                  rd.result # <<"Could not fetch content from any node.">>

----------------------------------------------------------------------------
(* Properties of the archive pipeline *)

\* The handler has answered 200 with the id of the Archive it created.
Recorded ==
    /\ api.pc = "responded"
    /\ api.response.status = 200
    /\ api.response.suiArchiveId # 0

\* The Archive object the last request created.
RecordedArchive == chain.archives[api.response.suiArchiveId]

IsSealedTitle(title) == \E i \in 1..Len(title) : title[i] = "LOCK"

\* version.contentHash: the digest the backend recorded on-chain for the
\* bytes it stored, as findArchives reads it back.
ContentHash(a) == Sha256(StoredBlob(a))

\* C16 (SpecRead).  On the read path the fingerprint of the fetched blob is
\* recomputed and compared with the content hash recorded on-chain: the
\* viewer never unseals or displays a blob whose SHA-256 differs from the
\* recorded value.
CEX_C16_ReadVerifiesHash ==
    \A i \in 1..Len(rd.answers) :
        rd.answers[i].how \in {"plain", "decrypted", "decryptionFailed"} =>
            Sha256(ServedBlob(rd.version, rd.answers[i])) = ContentHash(rd.version)

----------------------------------------------------------------------------
(* Properties of the journalist's keys *)

\* Every serialisation of a private key.
PrivateKeyStrings == {exportPrivateKey(k) : k \in KeyIds}

\* C17 (SpecViewer).  The journalist's private key never leaves the browser:
\* it is held in localStorage and in the viewer's memory only, and no
\* request the viewer has sent (to Sui, to a Walrus aggregator, to the
\* backend's AI endpoint) and no field of the backend's archive handler
\* contains it.
THM_C17_PrivateKeyStaysLocal ==
    /\ \A r \in ViewerRequests :
           \A i \in 1..Len(r.body) : r.body[i] \notin PrivateKeyStrings
    /\ api.recipientPublicKey \notin PrivateKeyStrings
    /\ browser.journalistPublicKey \notin PrivateKeyStrings
    /\ browser.localStorage.journalist_public_key \notin PrivateKeyStrings

\* The viewer holds a stored private key, has searched the registry, has
\* asked for an analysis and has unsealed a fetched blob with the key.
W_C17_KeyUsedAndRequestsSent ==
    /\ browser.journalistPrivateKey # 0
    /\ browser.localStorage.journalist_private_key
         = exportPrivateKey(browser.journalistPrivateKey)
    /\ SuiQueries \subseteq browser.sent
    /\ AnalyzeRequest \in browser.sent
    /\ rd.pc = "returned"
    /\ rd.answers[Len(rd.answers)].how = "decrypted"
    /\ BlobFetches # {}

\* One step of the browser, as the keypair sees it.
CreatedOnceStep ==
    /\ (HasPair(browser.localStorage) /\ browser'.mounts # browser.mounts) =>
          browser'.pc = "import"
    /\ browser.pc = "import" =>
          /\ browser'.localStorage = browser.localStorage
          /\ browser'.generated = browser.generated
          /\ browser'.pc = "ready" =>
                /\ exportPrivateKey(browser'.journalistPrivateKey)
                     = browser.localStorage.journalist_private_key
                /\ browser'.journalistPublicKey
                     = browser.localStorage.journalist_public_key
    /\ browser'.generated # browser.generated =>
          /\ ~HasPair(browser.localStorage)
          /\ browser'.localStorage =
                [journalist_private_key |->
                     exportPrivateKey(browser'.journalistPrivateKey),
                 journalist_public_key |-> browser'.journalistPublicKey]
          /\ browser'.journalistPublicKey = exportKey(browser'.journalistPrivateKey)
    /\ (HasPair(browser.localStorage) /\ HasPair(browser'.localStorage)) =>
          browser'.localStorage = browser.localStorage

\* C18 (SpecViewer).  The keypair is created once and never rotated
\* automatically: when a private and a public key are stored, starting the
\* viewer loads that pair and neither generates a keypair nor overwrites
\* the stored keys; a keypair is generated and stored only when no pair is
\* stored.
THM_C18_CreatedOnce == [][CreatedOnceStep]_vars

\* The second page load has loaded the pair the first one generated.
W_C18_LoadedOnSecondStart ==
    /\ browser.mounts = 2
    /\ browser.pc = "ready"
    /\ Len(browser.generated) = 1
    /\ browser.journalistPrivateKey = browser.generated[1]
    /\ browser.journalistPublicKey = exportKey(browser.generated[1])
    /\ browser.localStorage.journalist_private_key
         = exportPrivateKey(browser.generated[1])

\* The errors with which a key string is refused: atob, importKey, and the
\* PEM decoder of publicEncrypt.
KeyFormatErrors == {"InvalidCharacterError", "DataError", "KeyFormatError"}

\* C19 (SpecKeyFormat).  Key-format rejection: importPublicKey of a string
\* that is not a public key (for example "not-a-valid-key") fails with a
\* key-format error and returns no key; sealBuffer with a public key that
\* cannot be parsed fails with such an error and returns no blob.
THM_C19_KeyFormatRejection ==
    /\ (browser.imported.pem # NoItem /\ ParsePem(browser.imported.pem) = 0) =>
          /\ ~browser.imported.res.ok
          /\ DOMAIN browser.imported.res = {"ok", "error"}
          /\ browser.imported.res.error \in KeyFormatErrors
    /\ \A n \in 1..Len(sealLog) :
           ParsePem(sealLog[n].pem) = 0 =>
               /\ ~sealLog[n].ok
               /\ DOMAIN SealResult(sealLog[n]) = {"ok", "error"}
               /\ SealResult(sealLog[n]).error \in KeyFormatErrors

\* "not-a-valid-key" has been refused by importPublicKey and by sealBuffer.
W_C19_MalformedRefused ==
    /\ browser.imported.pem = MalformedPem
    /\ ~browser.imported.res.ok
    /\ Len(sealLog) = 1
    /\ sealLog[1].pem = MalformedPem
    /\ ~sealLog[1].ok

\* C20 (SpecFrontend).  Wire-format compatibility: the blob encryptData
\* emits has the layout of sealBuffer (IV 16, AuthTag 16, KeyLength 2
\* big-endian, WrappedKey, Ciphertext), so decryptBlob with the private key
\* of the recipient gives back the payload.
CEX_C20_FrontendWireFormat ==
    /\ browser.sealed.res.ok =>
          LET blob == browser.sealed.res.value
          IN  /\ Len(blob) = IV_LEN + TAG_LEN + 2 + ModulusBytes
                               + Len(browser.sealed.data)
              /\ GetUint16BE(blob, KEYLEN_OFFSET) = ModulusBytes
    /\ (browser.opened.key # 0 /\ browser.opened.key = browser.sealed.key) =>
          /\ browser.opened.res.ok
          /\ browser.opened.res.value = browser.sealed.data

----------------------------------------------------------------------------
(* Properties of the on-chain registry *)

\* What a step leaves of the Archive objects that exist before it, and the
\* owner of those that exist after it.
FrozenStep ==
    /\ Len(chain'.archives) >= Len(chain.archives)
    /\ \A id \in 1..Len(chain.archives) :
         /\ chain'.archives[id] = chain.archives[id]
         /\ chain'.owner[id] = chain.owner[id]
    /\ \A id \in 1..Len(chain'.archives) : chain'.owner[id] = Immutable

\* C21 (SpecRegistry).  An Archive object is immutable from its creation on:
\* create_archive freezes it in the same transaction, and no later
\* transaction by anyone, its creator included, changes any of its fields,
\* its owner, or removes it.
THM_C21_ArchiveImmutable == [][FrozenStep]_vars

\* An archive whose creator has since given the registry away, and after
\* which another archive has been created.
W_C21_LaterTransactions ==
    \E r \in 1..Len(chain.registries) :
        /\ Len(chain.registries[r].all_archive_ids) >= 2
        /\ chain.archives[chain.registries[r].all_archive_ids[1]].captured_by
               # chain.registry_owner[r]

\* C22 (SpecRegistry).  A URLRegistry tracks the versions of one URL: every
\* archive whose id is in all_archive_ids of a registry has the same url as
\* that registry.
CEX_C22_RegistryOfOneUrl ==
    \A r \in 1..Len(chain.registries) :
        \A k \in 1..Len(chain.registries[r].all_archive_ids) :
            chain.archives[chain.registries[r].all_archive_ids[k]].url
                = chain.registries[r].url

\* C24 (SpecRegistry).  After any sequence of create_archive calls on a
\* registry created by create_registry, total_versions equals the length of
\* all_archive_ids, latest_archive_id is the last element of all_archive_ids
\* (none when empty), and the k-th archive created has version_number k.
THM_C24_VersionNumbers ==
    \A r \in 1..Len(chain.registries) :
        LET reg == chain.registries[r]
            n   == Len(reg.all_archive_ids)
        IN  /\ reg.total_versions = n
            /\ reg.latest_archive_id = IF n = 0 THEN 0 ELSE reg.all_archive_ids[n]
            /\ \A k \in 1..n :
                 chain.archives[reg.all_archive_ids[k]].version_number = k

\* A registry has reached its second version while another registry is
\* still empty.
W_C24_SecondVersion ==
    \E r1, r2 \in 1..Len(chain.registries) :
        /\ chain.registries[r1].total_versions = 2
        /\ chain.archives[chain.registries[r1].latest_archive_id].version_number = 2
        /\ chain.registries[r2].total_versions = 0

\* C25 (SpecRegistry).  The archives of a registry form a chain:
\* previous_archive_id of the first archive is none, and previous_archive_id
\* of every later archive is the id of the archive created immediately
\* before it in the same registry.
THM_C25_PreviousChain ==
    \A r \in 1..Len(chain.registries) :
        LET ids == chain.registries[r].all_archive_ids
        IN  \A k \in 1..Len(ids) :
              chain.archives[ids[k]].previous_archive_id
                  = IF k = 1 THEN 0 ELSE ids[k - 1]

\* Two registries, each with one archive: the archive created second is the
\* first of its registry and has no previous archive.
W_C25_TwoChains ==
    \E r1, r2 \in 1..Len(chain.registries) :
        /\ chain.registries[r1].all_archive_ids = <<1>>
        /\ chain.registries[r2].all_archive_ids = <<2>>
        /\ chain.archives[2].previous_archive_id = 0

----------------------------------------------------------------------------
(* Properties of the archive pipeline, continued *)

\* The answer of the publisher that ended the current upload call.
LastAnswer == up.answers[Len(up.answers)].response

\* What the handler does with a request that carries a recipientPublicKey,
\* and when the upload's argument and the object store change.
SealedRequestStep ==
    /\ (api'.n = api.n + 1 /\ api'.recipientPublicKey # NoRecipient) =>
          IF api'.pc = "upload"
          THEN /\ Len(sealLog') = Len(sealLog) + 1
               /\ SealResult(sealLog'[Len(sealLog')]).ok
               /\ sealLog'[Len(sealLog')].payload = api'.zipBuffer
               /\ api'.fileBuffer = SealResult(sealLog'[Len(sealLog')]).value
               /\ api'.fileBuffer # api'.zipBuffer
               /\ decryptSealedBlob(api'.fileBuffer,
                      ParsePem(api'.recipientPublicKey)).value = api'.zipBuffer
          ELSE /\ api'.pc = "responded"
               /\ api'.response.status \in {400, 500}
               /\ api'.fileBuffer = <<>>
               /\ api'.uploads = api.uploads
               /\ up' = up
               /\ chain' = chain
    /\ api'.n = api.n => api'.fileBuffer = api.fileBuffer
    /\ up'.attempts # up.attempts => (api.pc = "upload" /\ api.fileBuffer # <<>>)
    /\ chain' # chain => api.pc = "upload"

\* C23 (SpecArchive).  For an archive request that carries a
\* recipientPublicKey, the only bytes ever handed to the upload, and so sent
\* to a Walrus publisher, are the sealed blob: the plain zip is never
\* uploaded, and when sealing fails the request ends with an error, with no
\* upload and no on-chain record.
THM_C23_OnlySealedUploaded == [][SealedRequestStep]_vars

\* The sealed blob of a request is on its way to the second publisher.
W_C23_SealedInFlight ==
    /\ api.pc = "upload"
    /\ api.isEncrypted
    /\ up.inflight = {2}
    /\ api.fileBuffer # api.zipBuffer

\* When the object store changes and how the handler answers after the
\* upload.
RecordStep ==
    /\ Len(chain'.archives) > Len(chain.archives) =>
          /\ api.pc = "upload" /\ api.sui
          /\ up.pc = "returned"
          /\ TryPublisher(LastAnswer).ok
          /\ Len(chain'.archives) = Len(chain.archives) + 1
          /\ chain'.archives[Len(chain'.archives)].walrus_blob_id
                 = TryPublisher(LastAnswer).blobId
          /\ api'.response.status = 200
          /\ api'.response.suiArchiveId = Len(chain'.archives)
          /\ api'.response.walrusBlobId = TryPublisher(LastAnswer).blobId
    /\ (api.pc = "upload" /\ api'.pc = "responded" /\ up.pc = "thrown") =>
          /\ chain' = chain
          /\ api'.response.status = 500
          /\ \A i \in 1..Len(up.answers) : ~up.answers[i].ok
    /\ (api.pc = "upload" /\ api'.pc = "responded"
            /\ api'.response.status = 200 /\ api.sui) =>
          /\ up.pc = "returned"
          /\ Len(chain'.archives) = Len(chain.archives) + 1
          /\ api'.response.suiArchiveId = Len(chain'.archives)

CEX_C27_UnsealIffSealed ==
    Recorded => (IsSealedTitle(RecordedArchive.title) <=> api.isEncrypted)

----------------------------------------------------------------------------
(* Properties of the extension popup *)

\* C28 (SpecPopup).  The mode selected when the user clicks the Archive
\* button decides the request: a click made in whistleblower mode never
\* results in a request without a non-empty recipientPublicKey, also when
\* the mode buttons are clicked while the click is still being processed.
CEX_C28_ClickModeDecides ==
    \A i \in 1..Len(popup.sent) :
        popup.sent[i].clickMode =>
            popup.sent[i].recipientPublicKey # NoRecipient

\* C29 (SpecPopup).  From a click on the Archive button until that
\* operation ends the button is disabled, so one popup never has two
\* archive requests in flight, and the button is enabled again on every way
\* the operation ends.
THM_C29_ButtonDisabledWhileBusy ==
    /\ popup.pc # "idle" <=> popup.disabled
    /\ popup.inflight = IF popup.pc = "fetch" THEN 1 ELSE 0
    /\ popup.ended \in {"none", "noTabUrl", "noKey"} \cup ArchiveOutcomes

\* A second operation has ended, in a network error, after a first request
\* had been sent; the button is enabled.
W_C29_EnabledAfterSecondEnd ==
    /\ popup.clicks = 2
    /\ Len(popup.sent) = 2
    /\ popup.ended = "networkError"
    /\ popup.pc = "idle"
    /\ ~popup.disabled

----------------------------------------------------------------------------
(* Properties of the keypair shared by tabs *)

\* The two strings are the exports of the two halves of one keypair.
SamePair(private, public) ==
    \E k \in KeyIds : private = exportPrivateKey(k) /\ public = exportKey(k)

\* C30 (SpecTabs).  In every reachable state the public key and the private
\* key held in localStorage belong to the same keypair, and the private key
\* held in the viewer's memory is the pair of the displayed public key, also
\* when the keypair initialisation runs twice concurrently on an empty
\* store.
CEX_C30_KeysOfOnePair ==
    /\ HasPair(tabs.localStorage) =>
          SamePair(tabs.localStorage.journalist_private_key,
                   tabs.localStorage.journalist_public_key)
    /\ \A t \in TabIds :
          (tabs.tab[t].journalistPrivateKey # 0
              /\ tabs.tab[t].journalistPublicKey # NoItem) =>
             tabs.tab[t].journalistPublicKey
                 = exportKey(tabs.tab[t].journalistPrivateKey)

====
